---- MODULE Spec2Model ----
(***************************************************************************)
(* Smart Travel Planner: the weather condition mapper, the weather         *)
(* forecast tool with its fallback generator, the destination research     *)
(* tool, the budget calculator, the attractions finder, the research       *)
(* aggregator step, the itinerary step and the workflow entry point.       *)
(*                                                                         *)
(* Representation.                                                         *)
(*  - A text is a sequence of one-character strings, so that split(",")    *)
(*    and trim() are computed and not assumed.                             *)
(*  - A calendar date "YYYY-MM-DD" is its day number counted from          *)
(*    2025-08-15 (day 0); new Date(s).getTime() is dayNumber * MsPerDay    *)
(*    up to a common offset that cancels in every difference.  The process *)
(*    time zone is UTC, so setDate/getDate and toISOString agree.          *)
(*  - An amount handed to the budget calculator is given in hundredths     *)
(*    (cents); its arithmetic is binary64, as in the program.              *)
(*  - An optional JavaScript value is a record [has |-> FALSE] or          *)
(*    [has |-> TRUE, v |-> value].                                         *)
(***************************************************************************)
EXTENDS Integers, Sequences, FiniteSets, TLC

VARIABLES
    wPc,          \* weather tool: "idle", "called", "geocoding", "attempt", "returned", "raised"
    wArg,         \* weather tool: the argument object execute was called with
    wGeo,         \* weather tool: results[0] of the geocoding response, once resolved
    wAttempt,     \* weather tool: loop index i of the weatherAttempts loop
    wRequests,    \* weather tool: the HTTP requests issued so far, in order
    wData,        \* weather tool: weatherData, the accepted response body or null
    wResponses,   \* weather tool: what each weather request was answered with, in order
    wLog,         \* weather tool: the warnings and errors logged so far, in order
    wResult,      \* weather tool: the value execute resolved with
    bPc,          \* budget tool: "idle", "called", "returned", "raised"
    bArg,         \* budget tool: the argument object execute was called with
    bResult,      \* budget tool: the BudgetPlan returned
    fEntry,       \* workflow: which operation the caller invoked
    fRequest,     \* workflow: the TripRequest
    fPc,          \* workflow: position of the run
    fCalls,       \* workflow: argument objects handed to the four tools
    fPromises,    \* workflow: state of the four tool promises
    fBundle,      \* workflow: researchData, the output of the gather-travel-data step
    fStream,      \* workflow: the text stream: "none", "open", "ended", "thrown"
    fText,        \* workflow: itineraryText accumulated so far
    fFragments,   \* workflow: the fragments the text stream has delivered, in order
    fStepOut,     \* workflow: outcome of the itinerary step
    fOutcome,     \* workflow: what planSmartTrip gave its caller
    mPc,          \* condition mapper: "idle", "called", "returned"
    mCode,        \* condition mapper: the code getWeatherCondition was called with
    mResult,      \* condition mapper: the string returned
    dPc,          \* destination tool: "idle", "called", "fetching", "returned", "raised"
    dArg,         \* destination tool: the argument object execute was called with
    dRequests,    \* destination tool: the HTTP requests issued so far, in order
    dResponse,    \* destination tool: what the geocoding request was answered with
    dResult,      \* destination tool: the profile returned
    aPc,          \* attractions tool: "idle", "called", "returned", "raised"
    aArg,         \* attractions tool: the argument object execute was called with
    aResult       \* attractions tool: the AttractionsResult returned

weatherVars == <<wPc, wArg, wGeo, wAttempt, wRequests, wResponses, wData, wLog, wResult>>
budgetVars == <<bPc, bArg, bResult>>
flowVars == <<fEntry, fRequest, fPc, fCalls, fPromises, fBundle, fStream,
          fText, fFragments, fStepOut, fOutcome>>
mapperVars == <<mPc, mCode, mResult>>
destinationVars == <<dPc, dArg, dRequests, dResponse, dResult>>
attractionsVars == <<aPc, aArg, aResult>>
vars == <<wPc, wArg, wGeo, wAttempt, wRequests, wResponses, wData, wLog, wResult,
          bPc, bArg, bResult,
          fEntry, fRequest, fPc, fCalls, fPromises, fBundle, fStream,
          fText, fFragments, fStepOut, fOutcome,
          mPc, mCode, mResult, dPc, dArg, dRequests, dResponse, dResult,
          aPc, aArg, aResult>>

(***************************************************************************)
(* Bounds of the model.                                                    *)
(***************************************************************************)
\* Dates range over day 0 .. MaxDay.
MaxDay == 3
\* Trip durations handed directly to the budget calculator: 1 .. MaxDuration.
MaxDuration == 3
\* The text stream ends or throws before itineraryText grows past MaxTextLen
\* characters.
MaxTextLen == 5
\* Weather codes handed directly to the condition mapper: -MaxCode .. MaxCode.
MaxCode == 100
\* Trip durations handed directly to the attractions finder: -1 .. MaxStay.
MaxStay == 5

(***************************************************************************)
(* Generic helpers.                                                        *)
(***************************************************************************)
None == [has |-> FALSE]
Some(x) == [has |-> TRUE, v |-> x]

Abs(x) == IF x < 0 THEN 0 - x ELSE x

\* Math.ceil(n / d), d > 0
CeilDiv(n, d) == 0 - ((0 - n) \div d)

\* Math.round(n / d), d > 0: floor(n/d + 1/2)
RoundDiv(n, d) == (2 * n + d) \div (2 * d)

MinOf(S) == CHOOSE x \in S : \A y \in S : x <= y
MaxOf(S) == CHOOSE x \in S : \A y \in S : y <= x

\* s.split(",")[0]
SplitFirstComma(s) ==
    LET commas == {i \in 1..Len(s) : s[i] = ","}
    IN  IF commas = {} THEN s ELSE SubSeq(s, 1, MinOf(commas) - 1)

\* s.trim()
Trim(s) ==
    LET solid == {i \in 1..Len(s) : s[i] # " "}
    IN  IF solid = {} THEN <<>> ELSE SubSeq(s, MinOf(solid), MaxOf(solid))

\* Destructuring `const { ... } = context` of `execute: async ({ context })`:
\* it succeeds only if the argument object has a `context` property.
HasContext(arg) == "context" \in DOMAIN arg

(***************************************************************************)
(* Texts used as inputs and upstream answers.                              *)
(***************************************************************************)
TxtNowhereland == <<"N","o","w","h","e","r","e","l","a","n","d">>
TxtTokyoJapan == <<"T","o","k","y","o",","," ","J","a","p","a","n">>
TxtSpacedBali == <<" ","B","a","l","i"," ",",","I","D">>
TxtTokyo == <<"T","o","k","y","o">>
TxtBali == <<"B","a","l","i">>
TxtJapan == <<"J","a","p","a","n">>
TxtUnknown == <<"U","n","k","n","o","w","n">>

Destinations == {TxtNowhereland, TxtTokyoJapan, TxtSpacedBali}
Days == 0..MaxDay

(***************************************************************************)
(* helpers: getWeatherCondition, calculateDaysBetween,                     *)
(* generateFallbackWeather                                                 *)
(***************************************************************************)
MsPerDay == 1000 * 60 * 60 * 24

\* new Date(s).getTime()
GetTime(date) == date * MsPerDay

conditions ==
    [c \in {0, 1, 2, 3, 45, 48, 51, 53, 55, 61, 63, 65, 71, 73, 75, 95, 96, 99} |->
        CASE c = 0 -> "Clear sky"
          [] c = 1 -> "Mainly clear"
          [] c = 2 -> "Partly cloudy"
          [] c = 3 -> "Overcast"
          [] c = 45 -> "Foggy"
          [] c = 48 -> "Depositing rime fog"
          [] c = 51 -> "Light drizzle"
          [] c = 53 -> "Moderate drizzle"
          [] c = 55 -> "Dense drizzle"
          [] c = 61 -> "Slight rain"
          [] c = 63 -> "Moderate rain"
          [] c = 65 -> "Heavy rain"
          [] c = 71 -> "Slight snow fall"
          [] c = 73 -> "Moderate snow fall"
          [] c = 75 -> "Heavy snow fall"
          [] c = 95 -> "Thunderstorm"
          [] c = 96 -> "Thunderstorm with slight hail"
          [] c = 99 -> "Thunderstorm with heavy hail"]

\* Faulty variant: an unmapped code yields the text of `undefined`.
getWeatherConditionNoDefault(code) ==
    IF code \in DOMAIN conditions THEN conditions[code] ELSE "undefined"

\* conditions[code] || "Unknown"
getWeatherCondition(code) ==
    IF code \in DOMAIN conditions THEN conditions[code] ELSE "Unknown"

\* Faulty variant: the difference keeps its sign.
calculateDaysBetweenSigned(startDate, endDate) ==
    CeilDiv(GetTime(endDate) - GetTime(startDate), MsPerDay)

calculateDaysBetween(startDate, endDate) ==
    LET diffTime == Abs(GetTime(endDate) - GetTime(startDate))
    IN  CeilDiv(diffTime, MsPerDay)

\* Math.floor(Math.random() * n) lies in 0 .. n-1; the model draws its two
\* extreme outcomes, 0 and n-1.
\* The three draws of one day: each combination of extreme outcomes, numbered
\* 0 .. 7.
RandomCorner(c) ==
    [max |-> IF c % 2 = 0 THEN 0 ELSE 10 - 1,
     min |-> IF (c \div 2) % 2 = 0 THEN 0 ELSE 7 - 1,
     rain |-> IF (c \div 4) % 2 = 0 THEN 0 ELSE 40 - 1]

\* forecast_days=7 of the second weather URL
ForecastDays == 7

\* The random source of one generateFallbackWeather call, one draw per field
\* and day: the model lets the days run through the combinations in turn,
\* from any first one.
RandomDraws ==
    {[k \in 1..(MaxDay + ForecastDays) |-> RandomCorner((c + k) % 8)] : c \in 0..7}

\* date.setDate(date.getDate() + i); date.toISOString().split("T")[0]
FallbackDate(startDate, i) == startDate + i

\* Faulty variant: the codes run 0, 1, 2 against the conditions' 2, 1, 0.
FallbackDayCodesAscending(startDate, i, rnd) ==
    [date |-> FallbackDate(startDate, i),
     condition |-> IF i % 3 = 0 THEN "Partly cloudy"
                   ELSE IF i % 3 = 1 THEN "Mainly clear" ELSE "Clear sky",
     maxTemp |-> 25 + rnd.max,
     minTemp |-> 18 + rnd.min,
     precipitationChance |-> rnd.rain,
     weatherCode |-> i % 3]

\* Faulty variant: the two temperature ranges are exchanged.
FallbackDayRangesExchanged(startDate, i, rnd) ==
    [date |-> FallbackDate(startDate, i),
     condition |-> IF i % 3 = 0 THEN "Partly cloudy"
                   ELSE IF i % 3 = 1 THEN "Mainly clear" ELSE "Clear sky",
     maxTemp |-> 18 + rnd.min,
     minTemp |-> 25 + rnd.max,
     precipitationChance |-> rnd.rain,
     weatherCode |-> IF i % 3 = 0 THEN 2 ELSE IF i % 3 = 1 THEN 1 ELSE 0]

FallbackDay(startDate, i, rnd) ==
    [date |-> FallbackDate(startDate, i),
     condition |-> IF i % 3 = 0 THEN "Partly cloudy"
                   ELSE IF i % 3 = 1 THEN "Mainly clear" ELSE "Clear sky",
     maxTemp |-> 25 + rnd.max,
     minTemp |-> 18 + rnd.min,
     precipitationChance |-> rnd.rain,
     weatherCode |-> IF i % 3 = 0 THEN 2 ELSE IF i % 3 = 1 THEN 1 ELSE 0]

\* Faulty variant: the destination text is passed on as it is.
FallbackDestinationKeepsAll(destination) == destination

FallbackDestination(destination) == Trim(SplitFirstComma(destination))

\* generateFallbackWeather(destination, startDate, endDate), with the draws of
\* its random source as a parameter.  `destination` is an optional text: on an
\* undefined destination `destination.split` throws after the loop has run.
\* The `destination` of a result is an optional text too (the live result
\* carries the geocoder's `name`, which may be undefined); `summary` holds the
\* parts its text is built from.
generateFallbackWeather(destination, startDate, endDate, rnd) ==
    LET days == calculateDaysBetween(startDate, endDate)
        forecast == [k \in 1..days |-> FallbackDay(startDate, k - 1, rnd[k])]
    IN  IF ~destination.has
        THEN [kind |-> "throw"]
        ELSE [kind |-> "return",
              value |-> [destination |-> Some(FallbackDestination(destination.v)),
                         country |-> TxtUnknown,
                         forecast |-> forecast,
                         summary |-> [kind |-> "fallback", days |-> days,
                                      place |-> destination]]]

(***************************************************************************)
(* weatherForecastTool.execute                                             *)
(***************************************************************************)
\* What results[0] of a geocoding answer may hold.
GeoResults ==
    {[name |-> Some(TxtTokyo), country |-> Some(TxtJapan)],
     [name |-> Some(TxtBali), country |-> None],
     [name |-> None, country |-> None]}

\* What the geocoding endpoint may do: the fetch rejects, answers non-2xx, or
\* answers 2xx with a body that does not parse, parses to null, or parses to
\* an object whose `results` is missing, empty or holds one result.
GeoResponses ==
    {[status |-> "throw"], [status |-> "non2xx"],
     [status |-> "ok", parse |-> "throw"], [status |-> "ok", parse |-> "null"],
     [status |-> "ok", parse |-> "object", results |-> None],
     [status |-> "ok", parse |-> "object", results |-> Some(<<>>)]}
    \cup {[status |-> "ok", parse |-> "object", results |-> Some(<<r>>)] : r \in GeoResults}

\* Values the upstream arrays cycle through (temperatures in tenths of a degree).
CodePattern == <<0, 3, 61, 100>>
MaxTempPattern == <<0, 255, 304, -45>>
MinTempPattern == <<0, 125, 181, -105>>
RainPattern == <<0, 20, 55, 100>>

PatternArray(pattern, n) == [k \in 1..n |-> pattern[((k - 1) % Len(pattern)) + 1]]
DateArray(first, n) == [k \in 1..n |-> first + k - 1]

\* The `daily.time` values the weather endpoint may send for a request.
TimeSamples(startDate, endDate) ==
    LET span == Abs(endDate - startDate)
    IN  {[kind |-> "absent"], [kind |-> "notArray"],
         [kind |-> "array", v |-> <<>>],
         [kind |-> "array", v |-> DateArray(startDate, span)],
         [kind |-> "array", v |-> DateArray(startDate, span + 1)],
         [kind |-> "array", v |-> DateArray(0, ForecastDays)]}

\* The value arrays sent along with n dates: all of them in full, only the
\* temperatures, all of them one element long, or none.
ArraySamples(n) ==
    {[weathercode |-> Some(PatternArray(CodePattern, n)),
      temperature_2m_max |-> Some(PatternArray(MaxTempPattern, n)),
      temperature_2m_min |-> Some(PatternArray(MinTempPattern, n)),
      precipitation_probability_max |-> Some(PatternArray(RainPattern, n))],
     [weathercode |-> None,
      temperature_2m_max |-> Some(PatternArray(MaxTempPattern, n)),
      temperature_2m_min |-> Some(PatternArray(MinTempPattern, n)),
      precipitation_probability_max |-> None],
     [weathercode |-> Some(<<61>>),
      temperature_2m_max |-> Some(<<304>>),
      temperature_2m_min |-> Some(<<181>>),
      precipitation_probability_max |-> Some(<<55>>)],
     [weathercode |-> None, temperature_2m_max |-> None,
      temperature_2m_min |-> None, precipitation_probability_max |-> None]}

DailySamples(startDate, endDate) ==
    {[time |-> t, arrays |-> a] :
        t \in {x \in TimeSamples(startDate, endDate) : x.kind # "array"},
        a \in ArraySamples(0)}
    \cup UNION {{[time |-> t, arrays |-> a] : a \in ArraySamples(Len(t.v))} :
                  t \in {x \in TimeSamples(startDate, endDate) : x.kind = "array"}}

\* What the weather endpoint may do on one attempt.
WeatherResponses(startDate, endDate) ==
    {[status |-> "throw"], [status |-> "non2xx"],
     [status |-> "ok", parse |-> "throw"], [status |-> "ok", parse |-> "null"],
     [status |-> "ok", parse |-> "object", daily |-> None, current |-> FALSE],
     [status |-> "ok", parse |-> "object", daily |-> None, current |-> TRUE]}
    \cup {[status |-> "ok", parse |-> "object", daily |-> Some(d), current |-> FALSE] :
            d \in DailySamples(startDate, endDate)}

\* The URL of the geocoding request and of weatherAttempts[i].
GeocodingRequest(destination) == [endpoint |-> "geocoding", name |-> destination]
WeatherRequest(i, startDate, endDate) ==
    IF i = 0 THEN [endpoint |-> "forecast", params |-> "daily-full",
                   start_date |-> Some(startDate), end_date |-> Some(endDate)]
    ELSE IF i = 1 THEN [endpoint |-> "forecast", params |-> "daily-7-days",
                        start_date |-> None, end_date |-> None]
    ELSE [endpoint |-> "forecast", params |-> "current",
          start_date |-> None, end_date |-> None]

\* arr?.[index]
At(arr, index) ==
    IF arr.has /\ index + 1 <= Len(arr.v) THEN Some(arr.v[index + 1]) ELSE None

\* x || d, for a number x: undefined and 0 are falsy
OrDefault(x, d) == IF x.has /\ x.v # 0 THEN x.v ELSE d

\* Faulty variant: every element carries the first date.
LiveDayFirstDate(daily, index) ==
    [date |-> daily.time.v[1],
     condition |-> getWeatherCondition(OrDefault(At(daily.arrays.weathercode, index), 1)),
     maxTemp |-> RoundDiv(OrDefault(At(daily.arrays.temperature_2m_max, index), 250), 10),
     minTemp |-> RoundDiv(OrDefault(At(daily.arrays.temperature_2m_min, index), 180), 10),
     precipitationChance |->
         OrDefault(At(daily.arrays.precipitation_probability_max, index), 20),
     weatherCode |-> OrDefault(At(daily.arrays.weathercode, index), 1)]

\* One element of weatherData.daily.time.map(...)
LiveDay(daily, index) ==
    [date |-> daily.time.v[index + 1],
     condition |-> getWeatherCondition(OrDefault(At(daily.arrays.weathercode, index), 1)),
     maxTemp |-> RoundDiv(OrDefault(At(daily.arrays.temperature_2m_max, index), 250), 10),
     minTemp |-> RoundDiv(OrDefault(At(daily.arrays.temperature_2m_min, index), 180), 10),
     precipitationChance |->
         OrDefault(At(daily.arrays.precipitation_probability_max, index), 20),
     weatherCode |-> OrDefault(At(daily.arrays.weathercode, index), 1)]

RECURSIVE SumTemps(_)
SumTemps(forecast) ==
    IF forecast = <<>> THEN 0
    ELSE Head(forecast).maxTemp + Head(forecast).minTemp + SumTemps(Tail(forecast))

\* Steps 4 and 5: the forecast and summary built from an accepted `daily`.
LiveResult(geo, daily) ==
    LET forecast == [k \in 1..Len(daily.time.v) |-> LiveDay(daily, k - 1)]
        n == Len(forecast)
        rainyDays == Cardinality({k \in 1..n : forecast[k].precipitationChance > 50})
    IN  [destination |-> geo.name,
         country |-> IF geo.country.has /\ geo.country.v # <<>>
                     THEN geo.country.v ELSE TxtUnknown,
         forecast |-> forecast,
         summary |-> [kind |-> "live", days |-> n, place |-> geo.name,
                      avgTemp |-> IF n = 0 THEN None
                                  ELSE Some(RoundDiv(SumTemps(forecast), 2 * n)),
                      rainyDays |-> rainyDays]]

\* console.warn / console.error lines of execute.
LogGeocodingError == [level |-> "warn", msg |-> "Geocoding API error", attempt |-> 0]
LogNotFound == [level |-> "warn", msg |-> "Location not found", attempt |-> 0]
LogWeatherApiError(i) ==
    [level |-> "warn", msg |-> "Weather API error", attempt |-> i + 1]
LogWeatherFetchError(i) ==
    [level |-> "warn", msg |-> "Weather fetch error", attempt |-> i + 1]
LogInvalidData ==
    [level |-> "warn", msg |-> "Invalid weather data structure, using fallback",
     attempt |-> 0]
LogUnexpected == [level |-> "error", msg |-> "Unexpected error", attempt |-> 0]

\* Faulty variant of the outer catch block: it rethrows.
OuterCatchRethrows(input, rnd) == [kind |-> "throw"]

\* The outer catch block: the fallback for the original destination.
OuterCatch(input, rnd) ==
    generateFallbackWeather(Some(input.destination), input.startDate, input.endDate, rnd)

\* An exception thrown inside the outer try: how execute ends.
\* [kind |-> "return", value, log] or [kind |-> "throw", log].
ThrowInTry(input, rnd) ==
    LET handled == OuterCatch(input, rnd)
    IN  IF handled.kind = "return"
        THEN [kind |-> "return", value |-> handled.value, log |-> <<LogUnexpected>>]
        ELSE [kind |-> "throw", log |-> <<LogUnexpected>>]

\* `console.warn(why); return generateFallbackWeather(place, ...)` inside the
\* outer try: how execute ends.
ReturnFallback(why, place, input, rnd) ==
    LET first == generateFallbackWeather(place, input.startDate, input.endDate, rnd)
        thrown == ThrowInTry(input, rnd)
    IN  IF first.kind = "return"
        THEN [kind |-> "return", value |-> first.value, log |-> <<why>>]
        ELSE [thrown EXCEPT !.log = <<why>> \o thrown.log]

\* Faulty variant: without daily dates the fallback is built for the
\* destination as the caller wrote it.
ProcessWeatherOriginalName(geo, data, input, rnd) ==
    IF data.has /\ data.v.daily.has /\ data.v.daily.v.time.kind = "array"
    THEN [kind |-> "return", value |-> LiveResult(geo, data.v.daily.v), log |-> <<>>]
    ELSE ReturnFallback(LogInvalidData, Some(input.destination), input, rnd)

\* Step 3 onwards, once the attempts loop has ended with `data` as weatherData.
ProcessWeather(geo, data, input, rnd) ==
    IF data.has /\ data.v.daily.has /\ data.v.daily.v.time.kind = "array"
    THEN [kind |-> "return", value |-> LiveResult(geo, data.v.daily.v), log |-> <<>>]
    ELSE ReturnFallback(LogInvalidData, geo.name, input, rnd)

\* How execute ends with outcome `out`, `before` having been logged by the
\* same step.
WeatherEnds(before, out) ==
    /\ wPc' = IF out.kind = "return" THEN "returned" ELSE "raised"
    /\ wResult' = IF out.kind = "return" THEN Some(out.value) ELSE None
    /\ wLog' = wLog \o before \o out.log

WeatherInput == wArg.context

\* execute is entered: the destructuring of `context`, outside the try.
WeatherEnter ==
    /\ wPc = "called"
    /\ IF HasContext(wArg)
       THEN wPc' = "geocoding"
       ELSE wPc' = "raised"
    /\ UNCHANGED <<wArg, wGeo, wAttempt, wRequests, wResponses, wData, wLog, wResult>>
    /\ UNCHANGED <<budgetVars, flowVars, mapperVars, destinationVars, attractionsVars>>

\* Step 1: the geocoding request and what follows up to the next request.
WeatherGeocode ==
    /\ wPc = "geocoding"
    /\ wRequests' = Append(wRequests, GeocodingRequest(WeatherInput.destination))
    /\ \E resp \in GeoResponses, rnd \in RandomDraws :
        IF resp.status = "throw"
           \/ (resp.status = "ok" /\ resp.parse \in {"throw", "null"})
        THEN /\ WeatherEnds(<<>>, ThrowInTry(WeatherInput, rnd))
             /\ UNCHANGED <<wGeo, wAttempt>>
        ELSE IF resp.status = "non2xx"
                \/ ~resp.results.has
                \/ resp.results.v = <<>>
        THEN /\ WeatherEnds(<<>>,
                    ReturnFallback(IF resp.status = "non2xx"
                                   THEN LogGeocodingError ELSE LogNotFound,
                                   Some(WeatherInput.destination), WeatherInput, rnd))
             /\ UNCHANGED <<wGeo, wAttempt>>
        ELSE /\ wGeo' = Some(resp.results.v[1])
             /\ wAttempt' = 0
             /\ wPc' = "attempt"
             /\ UNCHANGED <<wLog, wResult>>
    /\ UNCHANGED <<wArg, wData, wResponses>>
    /\ UNCHANGED <<budgetVars, flowVars, mapperVars, destinationVars, attractionsVars>>

\* Whether an attempt's answer throws inside the loop's try: the fetch
\* rejects, the body does not parse, or it parses to null and reading
\* `rawData.daily` throws.
AttemptThrows(resp) ==
    \/ resp.status = "throw"
    \/ (resp.status = "ok" /\ resp.parse \in {"throw", "null"})

\* Faulty variant: only a `daily` object ends the loop.
AcceptedDailyOnly(resp) ==
    /\ resp.status = "ok"
    /\ resp.parse = "object"
    /\ resp.daily.has

\* weatherResponse.ok and `rawData.daily || rawData.current`
Accepted(resp) ==
    /\ resp.status = "ok"
    /\ resp.parse = "object"
    /\ (resp.daily.has \/ resp.current)

\* What a weather request was answered with, as the endpoint sent it.
ResponseClass(resp) ==
    IF resp.status = "non2xx" THEN "non2xx"
    ELSE IF resp.status = "throw" THEN "threw"
    ELSE IF resp.parse \in {"throw", "null"} THEN "threw"
    ELSE IF resp.daily.has
    THEN (IF resp.daily.v.time.kind = "array" THEN "dailyDates" ELSE "dailyNoDates")
    ELSE IF resp.current THEN "currentOnly" ELSE "neither"

\* Step 2: one pass of the weatherAttempts loop, and steps 3 to 5 when the
\* loop ends with it.
WeatherAttempt ==
    /\ wPc = "attempt"
    /\ wAttempt < 3
    /\ wRequests' = Append(wRequests,
          WeatherRequest(wAttempt, WeatherInput.startDate, WeatherInput.endDate))
    /\ \E resp \in WeatherResponses(WeatherInput.startDate, WeatherInput.endDate),
          rnd \in RandomDraws :
        LET accepted == Accepted(resp)
            data == IF accepted
                    THEN Some([daily |-> resp.daily, current |-> resp.current])
                    ELSE None
            logged == IF resp.status = "non2xx" THEN <<LogWeatherApiError(wAttempt)>>
                      ELSE IF AttemptThrows(resp)
                      THEN <<LogWeatherFetchError(wAttempt)>>
                      ELSE <<>>
        IN  /\ wResponses' = Append(wResponses, ResponseClass(resp))
            /\ IF accepted \/ wAttempt + 1 = 3
               THEN /\ wData' = data
                    /\ wAttempt' = IF accepted THEN wAttempt ELSE wAttempt + 1
                    /\ WeatherEnds(logged, ProcessWeather(wGeo.v, data, WeatherInput, rnd))
               ELSE /\ wAttempt' = wAttempt + 1
                    /\ wLog' = wLog \o logged
                    /\ UNCHANGED <<wPc, wData, wResult>>
    /\ UNCHANGED <<wArg, wGeo>>
    /\ UNCHANGED <<budgetVars, flowVars, mapperVars, destinationVars, attractionsVars>>

(***************************************************************************)
(* Numbers of the budget calculator.  A JavaScript number is an IEEE 754   *)
(* binary64 value and every operation rounds its exact result to the       *)
(* nearest such value, ties to even.  A positive number is held as         *)
(* [bits, exp]: `bits` are its 53 significand bits, most significant       *)
(* first and bits[1] = 1, and its value is                                 *)
(* (the integer spelled by bits) * 2^exp.                                  *)
(***************************************************************************)
SignificandBits == 53

Zeros(n) == [k \in 1..n |-> 0]

\* The integer spelled by a bit sequence, and the spelling of n >= 0.
RECURSIVE BitsToInt(_)
BitsToInt(bits) ==
    IF bits = <<>> THEN 0
    ELSE 2 * BitsToInt(SubSeq(bits, 1, Len(bits) - 1)) + bits[Len(bits)]

RECURSIVE IntToBits(_)
IntToBits(n) == IF n = 0 THEN <<>> ELSE Append(IntToBits(n \div 2), n % 2)

\* bits + 1 in the same number of bits; `carry` when that needs one bit more.
Increment(bits) ==
    IF \A i \in 1..Len(bits) : bits[i] = 1
    THEN [carry |-> TRUE, bits |-> <<1>> \o Zeros(Len(bits) - 1)]
    ELSE LET last == CHOOSE i \in 1..Len(bits) :
                        bits[i] = 0 /\ \A j \in (i + 1)..Len(bits) : bits[j] = 1
         IN  [carry |-> FALSE,
              bits |-> [i \in 1..Len(bits) |->
                          IF i < last THEN bits[i] ELSE IF i = last THEN 1 ELSE 0]]

\* The number nearest to (integer spelled by bits) * 2^exp, ties to even;
\* Len(bits) >= 53, bits[1] = 1, and `more` tells that the exact value lies
\* strictly above the one spelled.
RoundToDouble(bits, more, exp) ==
    LET kept == SubSeq(bits, 1, SignificandBits)
        rest == SubSeq(bits, SignificandBits + 1, Len(bits))
        guard == IF rest = <<>> THEN 0 ELSE rest[1]
        sticky == more \/ \E i \in 2..Len(rest) : rest[i] = 1
        up == guard = 1 /\ (sticky \/ kept[SignificandBits] = 1)
        e == exp + (Len(bits) - SignificandBits)
        inc == Increment(kept)
    IN  IF ~up THEN [bits |-> kept, exp |-> e]
        ELSE [bits |-> inc.bits, exp |-> IF inc.carry THEN e + 1 ELSE e]

\* The number an integer n > 0 is.
Double(n) ==
    [bits |-> IntToBits(n) \o Zeros(SignificandBits - Len(IntToBits(n))),
     exp |-> Len(IntToBits(n)) - SignificandBits]

\* The w-bit spelling of n, 0 <= n < 2^w.
BitsOf(n, w) == [i \in 1..w |-> (n \div (2 ^ (w - i))) % 2]

\* bits * k spelled in binary, for 53 bits and 0 < k < 2^7: the product is
\* taken on the three 18-bit limbs of <<0>> \o bits, lowest first.
MulBits(bits, k) ==
    LET limb == 2 ^ 18
        low == BitsToInt(SubSeq(bits, 36, 53)) * k
        mid == BitsToInt(SubSeq(bits, 18, 35)) * k + (low \div limb)
        high == BitsToInt(SubSeq(bits, 1, 17)) * k + (mid \div limb)
    IN  IntToBits(high) \o BitsOf(mid % limb, 18) \o BitsOf(low % limb, 18)

\* x * k for an integer k > 0
DoubleMul(x, k) == RoundToDouble(MulBits(x.bits, k), FALSE, x.exp)

\* A bit sequence holding a 1, without its leading zeros.
Normalized(bits) ==
    LET first == CHOOSE i \in 1..Len(bits) :
                    bits[i] = 1 /\ \A j \in 1..(i - 1) : bits[j] = 0
    IN  SubSeq(bits, first, Len(bits))

\* Long division by k, 0 < k < 2^13, of (the integer spelled by 53 bits) *
\* 2^36, limb by limb from the highest: the quotient's spelling and the
\* remainder.
DivBits(bits, k) ==
    LET limb == 2 ^ 18
        n1 == BitsToInt(SubSeq(bits, 1, 17))
        n2 == (n1 % k) * limb + BitsToInt(SubSeq(bits, 18, 35))
        n3 == (n2 % k) * limb + BitsToInt(SubSeq(bits, 36, 53))
        n4 == (n3 % k) * limb
        n5 == (n4 % k) * limb
    IN  [bits |-> Normalized(BitsOf(n1 \div k, 18) \o BitsOf(n2 \div k, 18)
                             \o BitsOf(n3 \div k, 18) \o BitsOf(n4 \div k, 18)
                             \o BitsOf(n5 \div k, 18)),
         rem |-> n5 % k]

\* x / k for an integer k, 0 < k < 2^13
DoubleDiv(x, k) ==
    LET d == DivBits(x.bits, k)
    IN  RoundToDouble(d.bits, d.rem # 0, x.exp - 36)

\* Math.floor(x), x < 2^31
DoubleFloor(x) ==
    IF x.exp >= 0 THEN BitsToInt(x.bits) * (2 ^ x.exp)
    ELSE IF 0 - x.exp >= SignificandBits THEN 0
    ELSE BitsToInt(SubSeq(x.bits, 1, SignificandBits + x.exp))

DoubleIsInteger(x) ==
    \/ x.exp >= 0
    \/ /\ 0 - x.exp < SignificandBits
       /\ \A i \in (SignificandBits + x.exp + 1)..SignificandBits : x.bits[i] = 0

\* Math.round(x): a fraction of one half or more rounds up.
MathRound(x) ==
    IF x.exp >= 0 \/ 0 - x.exp > SignificandBits THEN DoubleFloor(x)
    ELSE DoubleFloor(x) + x.bits[SignificandBits + x.exp + 1]

\* x < c and x > c for an integer c
DoubleLess(x, c) == DoubleFloor(x) < c
DoubleGreater(x, c) ==
    DoubleFloor(x) > c \/ (DoubleFloor(x) = c /\ ~DoubleIsInteger(x))

(***************************************************************************)
(* budgetCalculatorTool.execute                                            *)
(*                                                                         *)
(* totalBudget is held in cents: the number handed in is the one the       *)
(* decimal totalBudget / 100 denotes.                                      *)
(***************************************************************************)
\* The number context.totalBudget
Amount(totalBudget) == DoubleDiv(Double(totalBudget), 100)

KnownStyles == {"budget", "mid-range", "luxury"}
Categories == {"accommodation", "food", "transport", "activities", "misc"}

\* Faulty variant: the budget row gives 10 to misc.
allocationsSkewed ==
    [style \in KnownStyles |->
        CASE style = "budget" ->
                [accommodation |-> 35, food |-> 30, transport |-> 15,
                 activities |-> 15, misc |-> 10]
          [] style = "mid-range" ->
                [accommodation |-> 40, food |-> 25, transport |-> 15,
                 activities |-> 15, misc |-> 5]
          [] style = "luxury" ->
                [accommodation |-> 45, food |-> 20, transport |-> 15,
                 activities |-> 15, misc |-> 5]]

allocations ==
    [style \in KnownStyles |->
        CASE style = "budget" ->
                [accommodation |-> 35, food |-> 30, transport |-> 15,
                 activities |-> 15, misc |-> 5]
          [] style = "mid-range" ->
                [accommodation |-> 40, food |-> 25, transport |-> 15,
                 activities |-> 15, misc |-> 5]
          [] style = "luxury" ->
                [accommodation |-> 45, food |-> 20, transport |-> 15,
                 activities |-> 15, misc |-> 5]]

\* allocations[travelStyle] || allocations["mid-range"]
Allocation(travelStyle) ==
    IF travelStyle \in DOMAIN allocations
    THEN allocations[travelStyle] ELSE allocations["mid-range"]

\* const dailyBudget = totalBudget / duration (duration > 0)
DailyBudget(totalBudget, duration) == DoubleDiv(Amount(totalBudget), duration)

\* Faulty variant: total is rounded up (Math.ceil).
BreakdownEntryCeil(totalBudget, duration, pct) ==
    LET dailyBudget == DailyBudget(totalBudget, duration)
        share == DoubleDiv(DoubleMul(Amount(totalBudget), pct), 100)
    IN  [percentage |-> pct,
         total |-> IF DoubleIsInteger(share)
                   THEN DoubleFloor(share) ELSE DoubleFloor(share) + 1,
         daily |-> MathRound(DoubleDiv(DoubleMul(dailyBudget, pct), 100))]

\* { percentage, total, daily } of one category
BreakdownEntry(totalBudget, duration, pct) ==
    LET dailyBudget == DailyBudget(totalBudget, duration)
    IN  [percentage |-> pct,
         total |-> MathRound(DoubleDiv(DoubleMul(Amount(totalBudget), pct), 100)),
         daily |-> MathRound(DoubleDiv(DoubleMul(dailyBudget, pct), 100))]

Breakdown(totalBudget, duration, travelStyle) ==
    LET allocation == Allocation(travelStyle)
    IN  [accommodation |-> BreakdownEntry(totalBudget, duration, allocation.accommodation),
         food |-> BreakdownEntry(totalBudget, duration, allocation.food),
         transport |-> BreakdownEntry(totalBudget, duration, allocation.transport),
         activities |-> BreakdownEntry(totalBudget, duration, allocation.activities),
         miscellaneous |-> BreakdownEntry(totalBudget, duration, allocation.misc)]

BaseRecommendations(travelStyle, dailyBudget) ==
    <<[text |-> "Based on your {travelStyle} travel style and ${dailyBudget}/day budget",
       travelStyle |-> travelStyle,
       dailyBudget |-> MathRound(dailyBudget)],
      [text |-> "Book accommodations in advance for better rates and availability"],
      [text |-> "Mix restaurant meals with local street food for authentic experiences"],
      [text |-> "Use public transport when possible to save money and experience local life"],
      [text |-> "Look for free walking tours and attractions to maximize your budget"]>>

LowBudgetRecommendations ==
    <<[text |-> "Consider hostels or budget guesthouses for accommodation"],
      [text |-> "Cook some meals if kitchen facilities are available"]>>

HighBudgetRecommendations ==
    <<[text |-> "Consider boutique hotels or luxury resorts"],
      [text |-> "Budget for unique experiences and private guided tours"]>>

\* Faulty variant: dailyBudget <= 50
IsLowBudgetInclusive(dailyBudget) == ~DoubleGreater(dailyBudget, 50)

\* dailyBudget < 50 and dailyBudget > 200
IsLowBudget(dailyBudget) == DoubleLess(dailyBudget, 50)
IsHighBudget(dailyBudget) == DoubleGreater(dailyBudget, 200)

Recommendations(travelStyle, dailyBudget) ==
    IF IsLowBudget(dailyBudget)
    THEN BaseRecommendations(travelStyle, dailyBudget) \o LowBudgetRecommendations
    ELSE IF IsHighBudget(dailyBudget)
    THEN BaseRecommendations(travelStyle, dailyBudget) \o HighBudgetRecommendations
    ELSE BaseRecommendations(travelStyle, dailyBudget)

\* Faulty variant: Math.floor(dailyBudget)
ReturnedDailyBudgetFloor(dailyBudget) == DoubleFloor(dailyBudget)

\* dailyBudget: Math.round(dailyBudget) of the returned object
ReturnedDailyBudget(dailyBudget) == MathRound(dailyBudget)

\* The object execute returns for `context`.
budgetCalculator(context) ==
    LET dailyBudget == DailyBudget(context.totalBudget, context.duration)
    IN  [totalBudget |-> context.totalBudget,
         dailyBudget |-> ReturnedDailyBudget(dailyBudget),
         breakdown |-> Breakdown(context.totalBudget, context.duration, context.travelStyle),
         recommendations |-> Recommendations(context.travelStyle, dailyBudget)]

BudgetExecute ==
    /\ bPc = "called"
    /\ IF HasContext(bArg)
       THEN /\ bPc' = "returned"
            /\ bResult' = Some(budgetCalculator(bArg.context))
       ELSE /\ bPc' = "raised"
            /\ bResult' = None
    /\ UNCHANGED bArg
    /\ UNCHANGED <<weatherVars, flowVars, mapperVars, destinationVars, attractionsVars>>

(***************************************************************************)
(* The workflow: gatherTravelData, createDetailedItinerary, planSmartTrip  *)
(***************************************************************************)
ToolNames == {"weather", "destination", "budget", "attractions"}

TxtCulture == <<"c","u","l","t","u","r","e">>
TxtFood == <<"f","o","o","d">>

\* The request of the README and of the end-to-end scenario: Tokyo,
\* 2025-08-15 to 2025-08-22, 3500 USD, mid-range.
TokyoRequest ==
    [destination |-> TxtTokyoJapan, startDate |-> 0, endDate |-> 7,
     budget |-> 350000, travelers |-> 2, interests |-> <<TxtCulture, TxtFood>>,
     travelStyle |-> "mid-range"]

\* Schema-valid TripRequests (budget in cents).
TripRequests ==
    {[destination |-> d, startDate |-> s, endDate |-> e, budget |-> b,
      travelers |-> 2, interests |-> <<TxtCulture, TxtFood>>, travelStyle |-> st] :
        d \in Destinations, s \in Days, e \in Days, b \in {9000, 100000},
        st \in KnownStyles}
    \cup {TokyoRequest}

\* Math.ceil((end.getTime() - start.getTime()) / (1000 * 60 * 60 * 24))
TripDuration(request) ==
    CeilDiv(GetTime(request.endDate) - GetTime(request.startDate), MsPerDay)

\* Math.round((inputData.budget / duration) * 0.2): a number, or Infinity
\* when duration is 0 (budget > 0).
AttractionsBudget(request, duration) ==
    IF duration = 0 THEN [finite |-> FALSE]
    ELSE IF duration > 0
    THEN [finite |-> TRUE, v |-> RoundDiv(request.budget, 500 * duration)]
    ELSE [finite |-> TRUE, v |-> RoundDiv(0 - request.budget, 500 * (0 - duration))]

\* The argument objects of the four execute calls inside Promise.all.
WeatherCall(request) ==
    [inputData |-> [destination |-> request.destination,
                    startDate |-> request.startDate,
                    endDate |-> request.endDate]]
DestinationCall(request) ==
    [inputData |-> [destination |-> request.destination,
                    travelStyle |-> request.travelStyle,
                    travelers |-> request.travelers]]
BudgetCall(request, duration) ==
    [inputData |-> [totalBudget |-> request.budget,
                    duration |-> duration,
                    travelers |-> request.travelers,
                    travelStyle |-> request.travelStyle,
                    destination |-> request.destination]]
AttractionsCall(request, duration) ==
    [inputData |-> [destination |-> request.destination,
                    interests |-> request.interests,
                    duration |-> duration,
                    budget |-> AttractionsBudget(request, duration)]]

ToolCalls(request) ==
    LET duration == TripDuration(request)
    IN  [t \in ToolNames |->
            CASE t = "weather" -> WeatherCall(request)
              [] t = "destination" -> DestinationCall(request)
              [] t = "budget" -> BudgetCall(request, duration)
              [] t = "attractions" -> AttractionsCall(request, duration)]

\* The promise an execute call returns at once.  Each tool's execute reads
\* its input from `context` before any try block: called without one it
\* rejects with a TypeError; called with one it runs (WeatherEnter,
\* BudgetExecute).
CallTool(arg) ==
    IF HasContext(arg) THEN [state |-> "pending"]
    ELSE [state |-> "rejected", error |-> "TypeError"]

\* The object gatherTravelData returns from the four results.
ResearchData(request, results) ==
    [destination |-> request.destination,
     weatherForecast |-> results["weather"],
     destinationInfo |-> results["destination"],
     budgetPlan |-> results["budget"],
     attractions |-> results["attractions"]]

\* Research data handed to the itinerary step when it is run on its own.
CulturalTipsFull ==
    <<"Respect local customs and dress codes when visiting religious sites",
      "Learn basic phrases in the local language - locals appreciate the effort",
      "Understand local tipping etiquette and payment customs",
      "Be aware of cultural taboos and sensitive topics in conversation",
      "Follow local dining etiquette and meal timing customs">>
CulturalTipsFallback == <<"Research local customs before visiting">>

AttractionNames ==
    <<"Historic Cathedral or Temple", "Local Food Market", "Nature Park or Garden",
      "Art Museum or Gallery">>


ResearchSamples(request) ==
    {[destination |-> request.destination,
      weatherForecast |->
          generateFallbackWeather(Some(request.destination), request.startDate,
                                  request.endDate, rnd).value,
      destinationInfo |-> [culturalTips |-> tips],
      attractions |-> [attractions |-> [k \in 1..n |-> [name |-> AttractionNames[k]]]]] :
        rnd \in {r \in RandomDraws : r[1] \in {RandomCorner(0), RandomCorner(7)}},
        tips \in {CulturalTipsFull, CulturalTipsFallback},
        n \in {2, Len(AttractionNames)}}

FragmentSamples == {<<"D","a","y"," ">>, <<"1">>}

\* researchData.attractions.attractions.slice(0, 3).map((a) => a.name)
TopAttractionNames(researchData) ==
    LET list == researchData.attractions.attractions
    IN  [k \in 1..(IF Len(list) < 3 THEN Len(list) ELSE 3) |-> list[k].name]

SunnyDays(researchData) ==
    LET forecast == researchData.weatherForecast.forecast
    IN  Cardinality({k \in 1..Len(forecast) : forecast[k].precipitationChance < 30})

\* const highlights = [...names, `${n} sunny days`,
\* `${n} cultural insights included`]: each element is held as the parts its
\* text is built from.
Highlights(researchData) ==
    [k \in 1..Len(TopAttractionNames(researchData)) |->
        [kind |-> "name", text |-> TopAttractionNames(researchData)[k]]]
    \o <<[kind |-> "sunny days", n |-> SunnyDays(researchData)],
         [kind |-> "cultural insights included",
          n |-> Len(researchData.destinationInfo.culturalTips)]>>

\* The object createDetailedItinerary returns once the stream has ended.
ItineraryResult(request, researchData, itineraryText) ==
    [itinerary |-> itineraryText,
     summary |->
        [destination |-> researchData.destination,
         duration |-> TripDuration(request),
         totalBudget |-> request.budget,
         travelers |-> request.travelers,
         highlights |-> Highlights(researchData)]]

\* gatherTravelData.execute up to `await Promise.all`: the duration and the
\* four calls.
GatherDispatch ==
    /\ fPc = "called"
    /\ fCalls' = Some(ToolCalls(fRequest))
    /\ fPromises' = Some([t \in ToolNames |-> CallTool(ToolCalls(fRequest)[t])])
    /\ fPc' = "joining"
    /\ UNCHANGED <<fEntry, fRequest, fBundle, fStream, fText, fFragments, fStepOut, fOutcome>>
    /\ UNCHANGED <<weatherVars, budgetVars, mapperVars, destinationVars, attractionsVars>>

\* Faulty variant: the step goes on with whatever the four promises hold.
GatherJoinIgnoresFailures ==
    /\ fPc = "joining"
    /\ fPc' = "itinerary"
    /\ fBundle' = Some(ResearchData(fRequest,
                        [t \in ToolNames |->
                            IF fPromises.v[t].state = "fulfilled"
                            THEN fPromises.v[t].value ELSE None]))
    /\ UNCHANGED <<fEntry, fRequest, fCalls, fPromises, fStream, fText, fFragments, fStepOut, fOutcome>>
    /\ UNCHANGED <<weatherVars, budgetVars, mapperVars, destinationVars, attractionsVars>>

\* Promise.all settles: it rejects as soon as one promise has rejected and
\* fulfils when all four have fulfilled; the step then returns its bundle
\* and the workflow goes on to createDetailedItinerary.
GatherJoin ==
    /\ fPc = "joining"
    /\ \A t \in ToolNames :
          fPromises.v[t].state = "pending"
              => \E u \in ToolNames : fPromises.v[u].state = "rejected"
    /\ IF \E t \in ToolNames : fPromises.v[t].state = "rejected"
       THEN /\ fPc' = "gatherFailed"
            /\ UNCHANGED fBundle
       ELSE /\ fPc' = "itinerary"
            /\ fBundle' = Some(ResearchData(fRequest,
                                [t \in ToolNames |-> fPromises.v[t].value]))
    /\ UNCHANGED <<fEntry, fRequest, fCalls, fPromises, fStream, fText, fFragments, fStepOut, fOutcome>>
    /\ UNCHANGED <<weatherVars, budgetVars, mapperVars, destinationVars, attractionsVars>>

\* createDetailedItinerary.execute up to `await itineraryPlannerAgent.stream`:
\* the call fails, or hands back a text stream.
ItineraryCall ==
    /\ fPc = "itinerary"
    /\ \E callFails \in BOOLEAN :
        IF callFails
        THEN /\ fPc' = "stepFailed"
             /\ fStepOut' = Some([kind |-> "error"])
             /\ UNCHANGED fStream
        ELSE /\ fPc' = "streaming"
             /\ fStream' = "open"
             /\ UNCHANGED fStepOut
    /\ fText' = <<>>
    /\ fFragments' = <<>>
    /\ UNCHANGED <<fEntry, fRequest, fCalls, fPromises, fBundle, fOutcome>>
    /\ UNCHANGED <<weatherVars, budgetVars, mapperVars, destinationVars, attractionsVars>>

\* Faulty variant: the fragment is put in front of the text.
ItineraryChunkPrepends ==
    /\ fPc = "streaming"
    /\ \E chunk \in FragmentSamples :
        /\ Len(fText) + Len(chunk) <= MaxTextLen
        /\ fText' = chunk \o fText
        /\ fFragments' = Append(fFragments, chunk)
    /\ UNCHANGED <<fEntry, fRequest, fPc, fCalls, fPromises, fBundle, fStream,
                   fStepOut, fOutcome>>
    /\ UNCHANGED <<weatherVars, budgetVars, mapperVars, destinationVars, attractionsVars>>

\* One pass of `for await (const chunk of response.textStream)`.
ItineraryChunk ==
    /\ fPc = "streaming"
    /\ \E chunk \in FragmentSamples :
        /\ Len(fText) + Len(chunk) <= MaxTextLen
        /\ fText' = fText \o chunk
        /\ fFragments' = Append(fFragments, chunk)
    /\ UNCHANGED <<fEntry, fRequest, fPc, fCalls, fPromises, fBundle, fStream,
                   fStepOut, fOutcome>>
    /\ UNCHANGED <<weatherVars, budgetVars, mapperVars, destinationVars, attractionsVars>>

\* Faulty variant: on a throwing stream the step returns the text it has.
ItineraryStreamThrowsKeepsText ==
    /\ fPc = "streaming"
    /\ fStream' = "thrown"
    /\ fPc' = "stepDone"
    /\ fStepOut' = Some([kind |-> "ok",
                         value |-> ItineraryResult(fRequest, fBundle.v, fText)])
    /\ UNCHANGED <<fEntry, fRequest, fCalls, fPromises, fBundle, fText, fFragments, fOutcome>>
    /\ UNCHANGED <<weatherVars, budgetVars, mapperVars, destinationVars, attractionsVars>>

\* The stream throws: the step rejects and itineraryText is dropped with it.
ItineraryStreamThrows ==
    /\ fPc = "streaming"
    /\ fStream' = "thrown"
    /\ fPc' = "stepFailed"
    /\ fStepOut' = Some([kind |-> "error"])
    /\ UNCHANGED <<fEntry, fRequest, fCalls, fPromises, fBundle, fText, fFragments, fOutcome>>
    /\ UNCHANGED <<weatherVars, budgetVars, mapperVars, destinationVars, attractionsVars>>

\* The stream ends: the summary is built and the step returns.
ItineraryStreamEnds ==
    /\ fPc = "streaming"
    /\ fStream' = "ended"
    /\ fPc' = "stepDone"
    /\ fStepOut' = Some([kind |-> "ok",
                         value |-> ItineraryResult(fRequest, fBundle.v, fText)])
    /\ UNCHANGED <<fEntry, fRequest, fCalls, fPromises, fBundle, fText, fFragments, fOutcome>>
    /\ UNCHANGED <<weatherVars, budgetVars, mapperVars, destinationVars, attractionsVars>>

\* planSmartTrip after `await smartTravelPlannerWorkflow.execute`: it returns
\* the result, or its catch block logs and rethrows.
PlanSmartTripEnds ==
    /\ fEntry = "planSmartTrip"
    /\ fPc \in {"gatherFailed", "stepFailed", "stepDone"}
    /\ fOutcome' = IF fPc = "stepDone"
                   THEN [kind |-> "returned", value |-> fStepOut.v.value]
                   ELSE [kind |-> "raised"]
    /\ fPc' = "ended"
    /\ UNCHANGED <<fEntry, fRequest, fCalls, fPromises, fBundle, fStream, fText, fFragments, fStepOut>>
    /\ UNCHANGED <<weatherVars, budgetVars, mapperVars, destinationVars, attractionsVars>>

(***************************************************************************)
(* getWeatherCondition called on its own                                   *)
(***************************************************************************)
MapperCall ==
    /\ mPc = "called"
    /\ mResult' = Some(getWeatherCondition(mCode))
    /\ mPc' = "returned"
    /\ UNCHANGED mCode
    /\ UNCHANGED <<weatherVars, budgetVars, flowVars, destinationVars, attractionsVars>>

(***************************************************************************)
(* destinationResearchTool.execute                                         *)
(***************************************************************************)
\* A JavaScript number that may be NaN.
NaN == [nan |-> TRUE]
Num(n) == [nan |-> FALSE, v |-> n]

\* The own properties of the costMultipliers literal: 1, 1.8 and 3.5 as
\* binary64 numbers.
costMultipliers ==
    [s \in KnownStyles |->
        CASE s = "budget" -> Double(1)
          [] s = "mid-range" -> DoubleDiv(Double(18), 10)
          [] s = "luxury" -> DoubleDiv(Double(35), 10)]

\* Property names every object literal inherits from Object.prototype; the
\* value read under such a name is a function or an object.
ObjectPrototypeMembers ==
    {"constructor", "toString", "toLocaleString", "valueOf", "hasOwnProperty",
     "isPrototypeOf", "propertyIsEnumerable", "__proto__"}

\* costMultipliers[travelStyle] || 1.8: an own property, else an inherited
\* member (truthy, and not a number), else 1.8.
Multiplier(travelStyle) ==
    IF travelStyle \in DOMAIN costMultipliers
    THEN [kind |-> "number", v |-> costMultipliers[travelStyle]]
    ELSE IF travelStyle \in ObjectPrototypeMembers
    THEN [kind |-> "object"]
    ELSE [kind |-> "number", v |-> DoubleDiv(Double(18), 10)]

\* Math.round(base * multiplier): NaN when the multiplier is not a number.
ScaledCost(base, multiplier) ==
    IF multiplier.kind = "number" THEN Num(MathRound(DoubleMul(multiplier.v, base)))
    ELSE NaN

KeyAttractionsFull ==
    <<"Historic City Center and Old Town",
      "National Museum and Cultural Sites",
      "Local Markets and Shopping Districts",
      "Scenic Viewpoints and Observation Decks",
      "Traditional Cultural Districts",
      "Modern Entertainment Areas">>
LocalCuisineFull ==
    <<"Traditional street food and local specialties",
      "Regional dishes unique to this area",
      "Local beverages and traditional drinks",
      "Seasonal delicacies and fresh ingredients",
      "Popular restaurant chains and cafes">>

\* destinationData: locationName is an optional text, the geocoder's `name`
\* may be undefined.
DestinationData(locationName, countryName, travelStyle) ==
    LET multiplier == Multiplier(travelStyle)
    IN  [destination |-> locationName,
         country |-> countryName,
         currency |-> "USD",
         bestTimeToVisit |-> "Spring and Fall for optimal weather conditions",
         culturalTips |-> CulturalTipsFull,
         safetyLevel |-> "medium",
         estimatedDailyCosts |->
            [accommodation |-> ScaledCost(50, multiplier),
             food |-> ScaledCost(30, multiplier),
             transport |-> ScaledCost(15, multiplier),
             activities |-> ScaledCost(25, multiplier),
             total |-> ScaledCost(120, multiplier)],
         keyAttractions |-> KeyAttractionsFull,
         localCuisine |-> LocalCuisineFull]

\* Faulty variant of the catch block: the destination text is kept whole.
DestinationFallbackKeepsAll(destination) ==
    [destination |-> Some(destination),
     country |-> TxtUnknown,
     currency |-> "USD",
     bestTimeToVisit |-> "Year-round with seasonal variations",
     culturalTips |-> CulturalTipsFallback,
     safetyLevel |-> "medium",
     estimatedDailyCosts |->
        [accommodation |-> Num(60), food |-> Num(35), transport |-> Num(20),
         activities |-> Num(30), total |-> Num(145)],
     keyAttractions |-> <<"Main attractions", "Cultural sites">>,
     localCuisine |-> <<"Local specialties">>]

\* The object the catch block returns.
DestinationFallback(destination) ==
    [destination |-> Some(Trim(SplitFirstComma(destination))),
     country |-> TxtUnknown,
     currency |-> "USD",
     bestTimeToVisit |-> "Year-round with seasonal variations",
     culturalTips |-> CulturalTipsFallback,
     safetyLevel |-> "medium",
     estimatedDailyCosts |->
        [accommodation |-> Num(60), food |-> Num(35), transport |-> Num(20),
         activities |-> Num(30), total |-> Num(145)],
     keyAttractions |-> <<"Main attractions", "Cultural sites">>,
     localCuisine |-> <<"Local specialties">>]

\* The try block from the geocoding answer on: locationName and countryName,
\* then destinationData; a rejected fetch, a body that does not parse and a
\* null body (reading `geocodingData.results` throws) end in the catch block.
ResearchDestination(resp, input) ==
    IF resp.status = "throw"
       \/ (resp.status = "ok" /\ resp.parse \in {"throw", "null"})
    THEN DestinationFallback(input.destination)
    ELSE IF resp.status = "ok" /\ resp.results.has /\ resp.results.v # <<>>
    THEN DestinationData(resp.results.v[1].name,
                         IF resp.results.v[1].country.has
                            /\ resp.results.v[1].country.v # <<>>
                         THEN resp.results.v[1].country.v ELSE TxtUnknown,
                         input.travelStyle)
    ELSE DestinationData(Some(input.destination), TxtUnknown, input.travelStyle)

DestinationInput == dArg.context

\* execute is entered: the destructuring of `context`, outside the try.
DestinationEnter ==
    /\ dPc = "called"
    /\ IF HasContext(dArg)
       THEN dPc' = "fetching"
       ELSE dPc' = "raised"
    /\ UNCHANGED <<dArg, dRequests, dResponse, dResult>>
    /\ UNCHANGED <<weatherVars, budgetVars, flowVars, mapperVars, attractionsVars>>

\* The geocoding request and everything after it.
DestinationGeocode ==
    /\ dPc = "fetching"
    /\ dRequests' = Append(dRequests, GeocodingRequest(DestinationInput.destination))
    /\ \E resp \in GeoResponses :
          /\ dResponse' = Some(resp)
          /\ dResult' = Some(ResearchDestination(resp, DestinationInput))
    /\ dPc' = "returned"
    /\ UNCHANGED dArg
    /\ UNCHANGED <<weatherVars, budgetVars, flowVars, mapperVars, attractionsVars>>

(***************************************************************************)
(* attractionsFinderTool.execute                                           *)
(***************************************************************************)
UpperCaseLetters ==
    <<"A","B","C","D","E","F","G","H","I","J","K","L","M","N","O","P","Q","R","S","T","U","V","W","X","Y","Z">>
LowerCaseLetters ==
    <<"a","b","c","d","e","f","g","h","i","j","k","l","m","n","o","p","q","r","s","t","u","v","w","x","y","z">>

\* s.toLowerCase()
toLowerCase(s) ==
    [i \in 1..Len(s) |->
        IF \E k \in 1..Len(UpperCaseLetters) : UpperCaseLetters[k] = s[i]
        THEN LowerCaseLetters[CHOOSE k \in 1..Len(UpperCaseLetters) :
                                 UpperCaseLetters[k] = s[i]]
        ELSE s[i]]

\* s.includes(part)
includes(s, part) ==
    \E i \in 0..(Len(s) - Len(part)) : SubSeq(s, i + 1, i + Len(part)) = part

\* The catalog (rating in tenths).
allAttractions ==
    <<
     [name |-> <<"H","i","s","t","o","r","i","c"," ","C","a","t","h","e","d","r","a","l"," ","o","r"," ","T","e","m","p","l","e">>,
      type |-> <<"C","u","l","t","u","r","a","l"," ","S","i","t","e">>,
      description |-> "Beautiful architecture with rich history and guided tours available",
      estimatedCost |-> 15, timeNeeded |-> "2-3 hours", bestTimeToVisit |-> "Morning",
      rating |-> 45,
      category |-> <<"c","u","l","t","u","r","e">>],
     [name |-> <<"L","o","c","a","l"," ","F","o","o","d"," ","M","a","r","k","e","t">>,
      type |-> <<"C","u","l","i","n","a","r","y"," ","E","x","p","e","r","i","e","n","c","e">>,
      description |-> "Authentic local cuisine and fresh ingredients from regional vendors",
      estimatedCost |-> 25, timeNeeded |-> "2-4 hours", bestTimeToVisit |-> "Late morning",
      rating |-> 47,
      category |-> <<"f","o","o","d">>],
     [name |-> <<"N","a","t","u","r","e"," ","P","a","r","k"," ","o","r"," ","G","a","r","d","e","n">>,
      type |-> <<"O","u","t","d","o","o","r"," ","A","c","t","i","v","i","t","y">>,
      description |-> "Scenic walking trails with local flora and peaceful atmosphere",
      estimatedCost |-> 10, timeNeeded |-> "Half day", bestTimeToVisit |-> "Early morning",
      rating |-> 43,
      category |-> <<"n","a","t","u","r","e">>],
     [name |-> <<"A","r","t"," ","M","u","s","e","u","m"," ","o","r"," ","G","a","l","l","e","r","y">>,
      type |-> <<"C","u","l","t","u","r","a","l"," ","S","i","t","e">>,
      description |-> "Contemporary and classical art collections with rotating exhibitions",
      estimatedCost |-> 20, timeNeeded |-> "3-4 hours", bestTimeToVisit |-> "Afternoon",
      rating |-> 42,
      category |-> <<"a","r","t">>],
     [name |-> <<"A","d","v","e","n","t","u","r","e"," ","A","c","t","i","v","i","t","y"," ","C","e","n","t","e","r">>,
      type |-> <<"A","d","v","e","n","t","u","r","e"," ","A","c","t","i","v","i","t","y">>,
      description |-> "Outdoor adventures like hiking, climbing, or water sports",
      estimatedCost |-> 45, timeNeeded |-> "Full day", bestTimeToVisit |-> "Morning",
      rating |-> 46,
      category |-> <<"a","d","v","e","n","t","u","r","e">>],
     [name |-> <<"T","e","c","h","n","o","l","o","g","y"," ","M","u","s","e","u","m">>,
      type |-> <<"E","d","u","c","a","t","i","o","n","a","l"," ","S","i","t","e">>,
      description |-> "Interactive exhibits showcasing modern technology and innovation",
      estimatedCost |-> 18, timeNeeded |-> "3-4 hours", bestTimeToVisit |-> "Afternoon",
      rating |-> 44,
      category |-> <<"t","e","c","h","n","o","l","o","g","y">>],
     [name |-> <<"S","h","o","p","p","i","n","g"," ","D","i","s","t","r","i","c","t">>,
      type |-> <<"S","h","o","p","p","i","n","g"," ","E","x","p","e","r","i","e","n","c","e">>,
      description |-> "Local shops, boutiques, and markets for unique souvenirs",
      estimatedCost |-> 30, timeNeeded |-> "Half day", bestTimeToVisit |-> "Afternoon",
      rating |-> 41,
      category |-> <<"s","h","o","p","p","i","n","g">>],
     [name |-> <<"H","i","s","t","o","r","i","c","a","l"," ","W","a","l","k","i","n","g"," ","T","o","u","r">>,
      type |-> <<"C","u","l","t","u","r","a","l"," ","E","x","p","e","r","i","e","n","c","e">>,
      description |-> "Guided tour through historic neighborhoods with local stories",
      estimatedCost |-> 20, timeNeeded |-> "3 hours", bestTimeToVisit |-> "Morning",
      rating |-> 48,
      category |-> <<"h","i","s","t","o","r","y">>]
    >>

\* Faulty variant: the interest is compared as it is written.
matchesInterestCaseSensitive(attraction, interests) ==
    \E k \in 1..Len(interests) :
        \/ includes(attraction.category, interests[k])
        \/ includes(attraction.type, interests[k])
        \/ includes(attraction.name, interests[k])

\* interests.some(...)
matchesInterest(attraction, interests) ==
    \E k \in 1..Len(interests) :
        \/ includes(toLowerCase(attraction.category), toLowerCase(interests[k]))
        \/ includes(toLowerCase(attraction.type), toLowerCase(interests[k]))
        \/ includes(toLowerCase(attraction.name), toLowerCase(interests[k]))

\* attraction.estimatedCost <= budget * 2; budget is a number or Infinity.
withinBudget(attraction, budget) ==
    IF budget.finite THEN attraction.estimatedCost <= budget.v * 2 ELSE TRUE

matchedAttractions(interests, budget) ==
    LET Keep(attraction) ==
            matchesInterest(attraction, interests) \/ withinBudget(attraction, budget)
    IN  SelectSeq(allAttractions, Keep)

\* Faulty variant: one attraction per day.
minAttractionsPerDay(duration) ==
    IF duration < Len(allAttractions) THEN duration ELSE Len(allAttractions)

\* Math.min(duration * 2, allAttractions.length)
minAttractions(duration) ==
    IF duration * 2 < Len(allAttractions) THEN duration * 2 ELSE Len(allAttractions)

\* arr.slice(0, n), n >= 0
SliceFromStart(arr, n) == SubSeq(arr, 1, IF n < Len(arr) THEN n ELSE Len(arr))

finalAttractions(interests, duration, budget) ==
    LET matched == matchedAttractions(interests, budget)
        Unmatched(a) == \A k \in 1..Len(matched) : matched[k] # a
    IN  IF Len(matched) >= minAttractions(duration) THEN matched
        ELSE matched \o SliceFromStart(SelectSeq(allAttractions, Unmatched),
                                       minAttractions(duration) - Len(matched))

\* [...new Set(arr)]: the distinct elements in the order of their first
\* occurrence.
DistinctInOrder(arr) ==
    LET First(k) == \A j \in 1..(k - 1) : arr[j] # arr[k]
        firsts == {k \in 1..Len(arr) : First(k)}
    IN  [i \in 1..Cardinality(firsts) |->
            arr[CHOOSE k \in firsts : Cardinality({j \in firsts : j <= k}) = i]]

attractionsFinder(context) ==
    LET final == finalAttractions(context.interests, context.duration, context.budget)
    IN  [destination |-> Trim(SplitFirstComma(context.destination)),
         attractions |-> final,
         totalAttractions |-> Len(final),
         categories |-> DistinctInOrder([k \in 1..Len(final) |-> final[k].category])]

AttractionsExecute ==
    /\ aPc = "called"
    /\ IF HasContext(aArg)
       THEN /\ aPc' = "returned"
            /\ aResult' = Some(attractionsFinder(aArg.context))
       ELSE /\ aPc' = "raised"
            /\ aResult' = None
    /\ UNCHANGED aArg
    /\ UNCHANGED <<weatherVars, budgetVars, flowVars, mapperVars, destinationVars>>

(***************************************************************************)
(* Specifications: one per operation a caller can invoke.                  *)
(***************************************************************************)
\* Inputs handed directly to the budget calculator (totalBudget in cents).
BudgetSamples ==
    {1, 1000, 4999, 5000, 5001, 9999, 10000, 14999, 15000, 15001,
     19999, 20000, 20001, 35000, 39500, 40000, 40001, 60000, 60003, 100000, 350000}

\* Whole amounts 1..20: the percentages are multiples of 5, so the fractional
\* part of a category share depends on the amount modulo 20 only.
WholeUnitSamples == {100 * d : d \in 1..20}

BudgetContexts ==
    {[totalBudget |-> b, duration |-> n, travelers |-> 2, travelStyle |-> st,
      destination |-> TxtTokyoJapan] :
        b \in BudgetSamples \cup WholeUnitSamples, n \in 1..MaxDuration,
        st \in KnownStyles \cup {"backpacker"}}
    \cup {BudgetCall(r, TripDuration(r)).inputData :
            r \in {q \in TripRequests : TripDuration(q) > 0}}

WeatherContexts ==
    {[destination |-> d, startDate |-> s, endDate |-> e] :
        d \in Destinations, s \in Days, e \in Days}

\* The weather tool is called with { context }, as the agent runtime does.
InitWeather ==
    /\ wPc = "called"
    /\ wArg \in {[context |-> c] : c \in WeatherContexts}
    /\ wGeo = None /\ wAttempt = 0 /\ wRequests = <<>> /\ wResponses = <<>>
    /\ wData = None /\ wLog = <<>> /\ wResult = None
    /\ bPc = "idle" /\ bArg = None /\ bResult = None
    /\ fEntry = "none" /\ fRequest = None /\ fPc = "idle" /\ fCalls = None
    /\ fPromises = None /\ fBundle = None /\ fStream = "none" /\ fText = <<>>
    /\ fFragments = <<>>
    /\ fStepOut = None
    /\ fOutcome = [kind |-> "none"]
    /\ mPc = "idle" /\ mCode = 0 /\ mResult = None
    /\ dPc = "idle" /\ dArg = None /\ dRequests = <<>> /\ dResponse = None
    /\ dResult = None
    /\ aPc = "idle" /\ aArg = None /\ aResult = None

\* The budget calculator is called with { context }, as the agent runtime does.
InitBudget ==
    /\ bPc = "called"
    /\ bArg \in {[context |-> c] : c \in BudgetContexts}
    /\ bResult = None
    /\ wPc = "idle" /\ wArg = None /\ wGeo = None /\ wAttempt = 0
    /\ wRequests = <<>> /\ wResponses = <<>> /\ wData = None /\ wLog = <<>>
    /\ wResult = None
    /\ fEntry = "none" /\ fRequest = None /\ fPc = "idle" /\ fCalls = None
    /\ fPromises = None /\ fBundle = None /\ fStream = "none" /\ fText = <<>>
    /\ fFragments = <<>>
    /\ fStepOut = None
    /\ fOutcome = [kind |-> "none"]
    /\ mPc = "idle" /\ mCode = 0 /\ mResult = None
    /\ dPc = "idle" /\ dArg = None /\ dRequests = <<>> /\ dResponse = None
    /\ dResult = None
    /\ aPc = "idle" /\ aArg = None /\ aResult = None

\* The caller invokes planSmartTrip with a TripRequest, or the itinerary step
\* is run with a TripRequest and research data.
InitFlow ==
    /\ fRequest \in TripRequests
    /\ fEntry \in {"planSmartTrip", "createDetailedItinerary"}
    /\ fPc = IF fEntry = "planSmartTrip" THEN "called" ELSE "itinerary"
    /\ fBundle \in IF fEntry = "planSmartTrip" THEN {None}
                   ELSE {Some(r) : r \in ResearchSamples(fRequest)}
    /\ fCalls = None /\ fPromises = None /\ fStream = "none" /\ fText = <<>>
    /\ fFragments = <<>>
    /\ fStepOut = None
    /\ fOutcome = [kind |-> "none"]
    /\ wPc = "idle" /\ wArg = None /\ wGeo = None /\ wAttempt = 0
    /\ wRequests = <<>> /\ wResponses = <<>> /\ wData = None /\ wLog = <<>>
    /\ wResult = None
    /\ bPc = "idle" /\ bArg = None /\ bResult = None
    /\ mPc = "idle" /\ mCode = 0 /\ mResult = None
    /\ dPc = "idle" /\ dArg = None /\ dRequests = <<>> /\ dResponse = None
    /\ dResult = None
    /\ aPc = "idle" /\ aArg = None /\ aResult = None

\* getWeatherCondition is called with an integer code.
InitMapper ==
    /\ mPc = "called"
    /\ mCode \in (0 - MaxCode)..MaxCode
    /\ mResult = None
    /\ wPc = "idle" /\ wArg = None /\ wGeo = None /\ wAttempt = 0
    /\ wRequests = <<>> /\ wResponses = <<>> /\ wData = None /\ wLog = <<>>
    /\ wResult = None
    /\ bPc = "idle" /\ bArg = None /\ bResult = None
    /\ fEntry = "none" /\ fRequest = None /\ fPc = "idle" /\ fCalls = None
    /\ fPromises = None /\ fBundle = None /\ fStream = "none" /\ fText = <<>>
    /\ fFragments = <<>>
    /\ fStepOut = None
    /\ fOutcome = [kind |-> "none"]
    /\ dPc = "idle" /\ dArg = None /\ dRequests = <<>> /\ dResponse = None
    /\ dResult = None
    /\ aPc = "idle" /\ aArg = None /\ aResult = None

\* Styles a caller may hand over: the three of the schema and two names the
\* schema does not know.
StyleSamples == KnownStyles \cup {"backpacker", "constructor"}

DestinationContexts ==
    {[destination |-> d, travelStyle |-> st, travelers |-> n] :
        d \in Destinations, st \in StyleSamples, n \in {1, 2}}

\* The destination research tool is called with { context }.
InitDestination ==
    /\ dPc = "called"
    /\ dArg \in {[context |-> c] : c \in DestinationContexts}
    /\ dRequests = <<>> /\ dResponse = None /\ dResult = None
    /\ wPc = "idle" /\ wArg = None /\ wGeo = None /\ wAttempt = 0
    /\ wRequests = <<>> /\ wResponses = <<>> /\ wData = None /\ wLog = <<>>
    /\ wResult = None
    /\ bPc = "idle" /\ bArg = None /\ bResult = None
    /\ fEntry = "none" /\ fRequest = None /\ fPc = "idle" /\ fCalls = None
    /\ fPromises = None /\ fBundle = None /\ fStream = "none" /\ fText = <<>>
    /\ fFragments = <<>>
    /\ fStepOut = None
    /\ fOutcome = [kind |-> "none"]
    /\ mPc = "idle" /\ mCode = 0 /\ mResult = None
    /\ aPc = "idle" /\ aArg = None /\ aResult = None

TxtMuseumUpper == <<"M","U","S","E","U","M">>
TxtArt == <<"a","r","t">>
TxtSite == <<"S","i","t","e">>
TxtZzz == <<"z","z","z">>

InterestSamples ==
    {<<>>, <<TxtCulture, TxtFood>>, <<TxtMuseumUpper>>, <<TxtArt>>, <<TxtSite>>,
     <<TxtZzz>>, <<<<>>>>}

\* Activities budgets per day, in whole dollars, and Infinity.
AttractionBudgetSamples ==
    {[finite |-> TRUE, v |-> b] : b \in {0, 4, 5, 8, 10, 12, 23, 100}}
    \cup {[finite |-> FALSE]}

AttractionContexts ==
    {[destination |-> d, interests |-> i, duration |-> n, budget |-> b] :
        d \in {TxtTokyoJapan, TxtSpacedBali}, i \in InterestSamples,
        n \in (0 - 1)..MaxStay, b \in AttractionBudgetSamples}

\* The attractions finder is called with { context }.
InitAttractions ==
    /\ aPc = "called"
    /\ aArg \in {[context |-> c] : c \in AttractionContexts}
    /\ aResult = None
    /\ wPc = "idle" /\ wArg = None /\ wGeo = None /\ wAttempt = 0
    /\ wRequests = <<>> /\ wResponses = <<>> /\ wData = None /\ wLog = <<>>
    /\ wResult = None
    /\ bPc = "idle" /\ bArg = None /\ bResult = None
    /\ fEntry = "none" /\ fRequest = None /\ fPc = "idle" /\ fCalls = None
    /\ fPromises = None /\ fBundle = None /\ fStream = "none" /\ fText = <<>>
    /\ fFragments = <<>>
    /\ fStepOut = None
    /\ fOutcome = [kind |-> "none"]
    /\ mPc = "idle" /\ mCode = 0 /\ mResult = None
    /\ dPc = "idle" /\ dArg = None /\ dRequests = <<>> /\ dResponse = None
    /\ dResult = None

NextWeather == WeatherEnter \/ WeatherGeocode \/ WeatherAttempt
NextBudget == BudgetExecute
NextMapper == MapperCall
NextDestination == DestinationEnter \/ DestinationGeocode
NextAttractions == AttractionsExecute
NextFlow ==
    \/ GatherDispatch \/ GatherJoin \/ ItineraryCall \/ ItineraryChunk
    \/ ItineraryStreamThrows \/ ItineraryStreamEnds \/ PlanSmartTripEnds

SpecWeather == InitWeather /\ [][NextWeather]_vars
SpecBudget == InitBudget /\ [][NextBudget]_vars
SpecFlow == InitFlow /\ [][NextFlow]_vars
SpecMapper == InitMapper /\ [][NextMapper]_vars
SpecDestination == InitDestination /\ [][NextDestination]_vars
SpecAttractions == InitAttractions /\ [][NextAttractions]_vars

(***************************************************************************)
(* Properties of the weather tool (SpecWeather)                            *)
(***************************************************************************)
Logged(msg) == \E k \in 1..Len(wLog) : wLog[k].msg = msg

\* The result is the fallback forecast built for the text `place`.
IsFallbackFor(result, place) ==
    /\ result.summary.kind = "fallback"
    /\ result.summary.place = Some(place)

\* C1 (as stated): the tool never raises, and once any exception has been
\* thrown inside the steps (by a weather attempt or anywhere else in the try
\* block), the result is the fallback forecast built from the original
\* destination text.
C1_AnyExceptionYieldsOriginalFallback ==
    /\ wPc # "raised"
    /\ (wPc = "returned" /\ (Logged("Weather fetch error") \/ Logged("Unexpected error")))
         => (wResult.has /\ IsFallbackFor(wResult.v, WeatherInput.destination))

\* C1 (amended): called with its input as `context`, the tool never raises
\* and ends with a result; an exception that reaches the outer handler
\* yields the fallback forecast built from the original destination text,
\* while an exception thrown by a weather attempt is only logged and the
\* attempt skipped (the loop makes at most three attempts).
C1_NeverRaisesOuterCatchUsesOriginal ==
    /\ wPc # "raised"
    /\ (wPc = "attempt" => wAttempt < 3)
    /\ (wPc = "returned" => wResult.has)
    /\ (wPc = "returned" /\ Logged("Unexpected error"))
         => /\ IsFallbackFor(wResult.v, WeatherInput.destination)
            /\ wResult.v.country = TxtUnknown
    /\ (Logged("Weather fetch error") /\ ~Logged("Unexpected error")
          /\ wPc = "returned")
         => \/ wResult.v.summary.kind = "live"
            \/ (wGeo.v.name.has /\ IsFallbackFor(wResult.v, wGeo.v.name.v))

\* An exception thrown after geocoding succeeded (the geocoder's result has
\* no name and the fallback for it throws) was caught and the tool returned.
C1_Witness ==
    /\ wPc = "returned"
    /\ wGeo.has
    /\ Logged("Weather fetch error")
    /\ Logged("Unexpected error")

\* The day span of the request.
RequestedSpan == Abs(WeatherInput.endDate - WeatherInput.startDate)

\* The forecast has one entry per day from startDate on.
AlignedWithRequest(forecast) ==
    \A k \in 1..Len(forecast) : forecast[k].date = WeatherInput.startDate + (k - 1)

\* The input destination cut before its first comma and trimmed.
ExpectedDestination(destination) ==
    IF destination = TxtNowhereland THEN TxtNowhereland
    ELSE IF destination = TxtTokyoJapan THEN TxtTokyo
    ELSE TxtBali

\* C3: when the geocoding call fails (it throws, answers non-2xx, sends a
\* malformed body or an empty result list), the returned forecast has as many
\* entries as the requested day span, its destination is the input
\* destination cut before the first comma and trimmed, its country is
\* "Unknown", and the only request made is the geocoding one.
C3_GeocodingFailureFallback ==
    (wPc = "returned" /\ ~wGeo.has)
        => /\ Len(wResult.v.forecast) = RequestedSpan
           /\ wResult.v.destination = Some(ExpectedDestination(WeatherInput.destination))
           /\ wResult.v.country = TxtUnknown
           /\ wRequests = <<GeocodingRequest(WeatherInput.destination)>>

\* The geocoder sent an empty result list for "Nowhereland".
C3_Witness ==
    /\ wPc = "returned"
    /\ ~wGeo.has
    /\ Logged("Location not found")
    /\ WeatherInput.destination = TxtNowhereland
    /\ wResult.v.destination = Some(TxtNowhereland)
    /\ Len(wResult.v.forecast) = MaxDay

C2_UpstreamFailureNeverSurfaces ==
    fEntry = "planSmartTrip"
        => /\ fPc # "gatherFailed"
           /\ (fOutcome.kind = "raised" => fStepOut = Some([kind |-> "error"]))
           /\ (fPc = "ended" /\ fStream = "ended" => fOutcome.kind = "returned")

\* C4: when the text-generation call fails, or its stream throws after any
\* number of fragments, the itinerary step ends in an error and nothing is
\* returned, not even the text gathered so far: a result exists only once the
\* stream has ended, and it then holds the whole text; the entry point
\* returns a result only in that case and raises otherwise.
C4_SynthesisFailureIsFatal ==
    /\ (fStream = "thrown" \/ (fPc = "stepFailed" /\ fStream = "none"))
          => fStepOut = Some([kind |-> "error"])
    /\ (fStepOut.has /\ fStepOut.v.kind = "ok")
          => (fStream = "ended" /\ fStepOut.v.value.itinerary = fText)
    /\ fOutcome.kind = "returned" => fStream = "ended"
    /\ (fPc = "ended" /\ fStream # "ended") => fOutcome.kind = "raised"

\* The stream threw after fragments had been gathered.
C4_Witness ==
    /\ fPc = "stepFailed"
    /\ fStream = "thrown"
    /\ Len(fText) >= 2
    /\ fStepOut = Some([kind |-> "error"])

(***************************************************************************)
(* Properties of the budget calculator (SpecBudget)                        *)
(***************************************************************************)
\* r is n / d rounded to the nearest integer, halves up (n >= 0, d > 0).
IsRounded(r, n, d) == (2 * r - 1) * d <= 2 * n /\ 2 * n < (2 * r + 1) * d

\* The percentage row of a style: accommodation, food, transport,
\* activities, miscellaneous.
ClaimedRow(travelStyle) ==
    IF travelStyle = "budget" THEN <<35, 30, 15, 15, 5>>
    ELSE IF travelStyle = "luxury" THEN <<45, 20, 15, 15, 5>>
    ELSE <<40, 25, 15, 15, 5>>

BreakdownEntries(result) ==
    <<result.breakdown.accommodation, result.breakdown.food,
      result.breakdown.transport, result.breakdown.activities,
      result.breakdown.miscellaneous>>

\* C7 (as stated): the breakdown uses the style's percentage row (an
\* unrecognized style uses the mid-range row) and, for each category, total
\* is totalBudget * pct / 100 rounded and daily is
\* (totalBudget / duration) * pct / 100 rounded; the Tokyo request is given
\* duration 7 and totals 1400/875/525/525/175, and luxury 1000 over 2 days
\* has accommodation.daily 225.  (totalBudget is in cents.)
C7_BreakdownFollowsFormula ==
    /\ TripDuration(TokyoRequest) = 7
    /\ bPc = "returned"
         => LET c == bArg.context
                entries == BreakdownEntries(bResult.v)
                row == ClaimedRow(c.travelStyle)
            IN  /\ \A k \in 1..5 :
                      /\ entries[k].percentage = row[k]
                      /\ IsRounded(entries[k].total, c.totalBudget * row[k], 100 * 100)
                      /\ IsRounded(entries[k].daily, c.totalBudget * row[k],
                                   100 * 100 * c.duration)
                /\ c = BudgetCall(TokyoRequest, 7).inputData
                      => [k \in 1..5 |-> entries[k].total] = <<1400, 875, 525, 525, 175>>
                /\ (c.totalBudget = 100000 /\ c.duration = 2 /\ c.travelStyle = "luxury")
                      => entries[1].daily = 225

\* C8: for each of the three known styles the five percentages sum to 100
\* and every total and daily of the breakdown is a non-negative integer.
C8_PercentagesSumAndIntegers ==
    (bPc = "returned" /\ bArg.context.travelStyle \in KnownStyles)
        => LET entries == BreakdownEntries(bResult.v)
           IN  /\ entries[1].percentage + entries[2].percentage + entries[3].percentage
                    + entries[4].percentage + entries[5].percentage = 100
               /\ \A k \in 1..5 : entries[k].total \in Nat /\ entries[k].daily \in Nat

\* A breakdown of a small budget: a daily of 0 next to positive totals.
C8_Witness ==
    /\ bPc = "returned"
    /\ bArg.context.travelStyle = "budget"
    /\ bArg.context.totalBudget = 1000
    /\ bResult.v.breakdown.miscellaneous.daily = 0
    /\ bResult.v.breakdown.accommodation.total = 4

\* C9 (as stated): the returned dailyBudget is totalBudget / duration
\* exactly, without rounding.
C9_DailyBudgetIsExactQuotient ==
    bPc = "returned"
        => bResult.v.dailyBudget * 100 * bArg.context.duration = bArg.context.totalBudget

\* C9 (amended): the returned dailyBudget is totalBudget / duration rounded
\* to the nearest integer, halves up; it is the exact quotient only when
\* that quotient is an integer.
C9_DailyBudgetIsRoundedQuotient ==
    bPc = "returned"
        => LET c == bArg.context
           IN  /\ IsRounded(bResult.v.dailyBudget, c.totalBudget, 100 * c.duration)
               /\ (bResult.v.dailyBudget * 100 * c.duration = c.totalBudget)
                    <=> (c.totalBudget % (100 * c.duration) = 0)

\* 1000 over 3 days: the returned dailyBudget is 333.
C9_Witness ==
    /\ bPc = "returned"
    /\ bArg.context.totalBudget = 100000
    /\ bArg.context.duration = 3
    /\ bResult.v.dailyBudget = 333

\* C10: the advisories are the five base ones when totalBudget / duration
\* lies in [50, 200], both ends included; seven, ending with the two
\* low-budget ones, when it is below 50; seven, ending with the two
\* high-budget ones, when it is above 200; never both extra pairs.
C10_AdvisoriesByBand ==
    bPc = "returned"
        => LET c == bArg.context
               recs == bResult.v.recommendations
               low == c.totalBudget < 50 * 100 * c.duration
               high == c.totalBudget > 200 * 100 * c.duration
               lowPair ==
                   <<[text |-> "Consider hostels or budget guesthouses for accommodation"],
                     [text |-> "Cook some meals if kitchen facilities are available"]>>
               highPair ==
                   <<[text |-> "Consider boutique hotels or luxury resorts"],
                     [text |-> "Budget for unique experiences and private guided tours"]>>
               has(pair) == \E k \in 1..(Len(recs) - 1) : SubSeq(recs, k, k + 1) = pair
           IN  /\ Len(recs) >= 5
               /\ \A k \in 1..5 : \A e \in {1, 2} : recs[k] # lowPair[e] /\ recs[k] # highPair[e]
               /\ (~low /\ ~high) => Len(recs) = 5
               /\ low => (Len(recs) = 7 /\ SubSeq(recs, 6, 7) = lowPair)
               /\ high => (Len(recs) = 7 /\ SubSeq(recs, 6, 7) = highPair)
               /\ ~(has(lowPair) /\ has(highPair))

\* 49.99 for one day: seven advisories.
C10_Witness ==
    /\ bPc = "returned"
    /\ bArg.context.totalBudget = 4999
    /\ bArg.context.duration = 1
    /\ Len(bResult.v.recommendations) = 7

(***************************************************************************)
(* Properties of the attractions finder (SpecAttractions)                  *)
(***************************************************************************)
\* min(2 x duration, 8)
ClaimedMinimum(duration) ==
    IF 2 * duration < 8 THEN 2 * duration ELSE 8

GatherOver ==
    /\ fEntry = "planSmartTrip"
    /\ fPc \notin {"called", "joining"}

\* C12 (as stated): the research aggregator step returns a ResearchBundle
\* that holds the results of all four tools for the TripRequest, together
\* with an echo of the trip duration the aggregator computed.
C12_BundleHoldsResultsAndDuration ==
    GatherOver =>
        /\ fBundle.has
        /\ \A t \in ToolNames : fPromises.v[t].state = "fulfilled"
        /\ fBundle.v.weatherForecast = fPromises.v["weather"].value
        /\ fBundle.v.destinationInfo = fPromises.v["destination"].value
        /\ fBundle.v.budgetPlan = fPromises.v["budget"].value
        /\ fBundle.v.attractions = fPromises.v["attractions"].value
        /\ "duration" \in DOMAIN fBundle.v
        /\ fBundle.v.duration = TripDuration(fRequest)

(***************************************************************************)
(* Properties of the condition mapper (SpecMapper)                         *)
(***************************************************************************)
\* The 18 codes the spec tables.
TabledCodes == {0, 1, 2, 3, 45, 48, 51, 53, 55, 61, 63, 65, 71, 73, 75, 95, 96, 99}

\* The mapper's answer for a code, as a function of the code alone.
PhraseOf(code) == getWeatherCondition(code)

\* C13: the weather condition mapper is total and deterministic: every
\* integer code yields a defined string, each of the 18 tabled codes yields
\* its own phrase (no two tabled codes share one, and none of them is
\* "Unknown"), and every other integer yields "Unknown".
C13_MapperTotalAndDeterministic ==
    mPc = "returned" =>
        /\ mResult.has
        /\ mResult.v \in STRING
        /\ mResult.v # "undefined"
        /\ mResult.v = PhraseOf(mCode)
        /\ mCode \in TabledCodes =>
              /\ mResult.v # "Unknown"
              /\ \A other \in TabledCodes \ {mCode} : PhraseOf(other) # mResult.v
        /\ mCode \notin TabledCodes => mResult.v = "Unknown"

\* C13 happens: an untabled code between two tabled ones was mapped.
C13_Witness ==
    /\ mPc = "returned"
    /\ mCode = 46
    /\ mResult = Some("Unknown")

(***************************************************************************)
(* Order of the weather tool's requests (SpecWeather)                      *)
(***************************************************************************)
\* The requests of one invocation in the order the spec fixes: geocoding,
\* (a) full forecast for the requested dates, (b) 7-day forecast,
\* (c) current conditions.
ClaimedRequestOrder ==
    <<[endpoint |-> "geocoding", name |-> wArg.context.destination],
      [endpoint |-> "forecast", params |-> "daily-full",
       start_date |-> Some(wArg.context.startDate),
       end_date |-> Some(wArg.context.endDate)],
      [endpoint |-> "forecast", params |-> "daily-7-days",
       start_date |-> None, end_date |-> None],
      [endpoint |-> "forecast", params |-> "current",
       start_date |-> None, end_date |-> None]>>

\* Answers after which the spec lets the next attempt be issued, and answers
\* that contain `daily` or `current`.
AnswersWithoutData == {"non2xx", "threw", "neither"}
AnswersWithData == {"dailyDates", "dailyNoDates", "currentOnly"}

\* C14: within one invocation the requests are issued strictly in the order
\* geocoding, (a), (b), (c), each at most once; attempt k+1 is issued only if
\* attempt k returned non-2xx, threw or returned a body with neither `daily`
\* nor `current`; and no attempt is issued after the first answer that
\* contains `daily` or `current`.
C14_RequestsInFixedOrder ==
    wPc # "idle" =>
        /\ Len(wRequests) <= Len(ClaimedRequestOrder)
        /\ wRequests = SubSeq(ClaimedRequestOrder, 1, Len(wRequests))
        /\ Len(wResponses) = IF wRequests = <<>> THEN 0 ELSE Len(wRequests) - 1
        /\ \A k \in 1..Len(wResponses) :
              k < Len(wResponses) => wResponses[k] \in AnswersWithoutData
        /\ \A k \in 1..Len(wResponses) :
              wResponses[k] \in AnswersWithData =>
                  /\ k = Len(wResponses)
                  /\ wPc \in {"returned", "raised"}

\* C14 happens: (a) answered non-2xx, (b) threw, and (c) was issued and
\* answered with current conditions only, after which the tool returned.
C14_Witness ==
    /\ wPc = "returned"
    /\ Len(wRequests) = 4
    /\ wResponses = <<"non2xx", "threw", "currentOnly">>

(***************************************************************************)
(* Live forecast or fallback after geocoding (SpecWeather)                 *)
(***************************************************************************)
\* Some attempt was answered with a `daily` holding an array of dates.
SomeAttemptGaveDates == \E k \in 1..Len(wResponses) : wResponses[k] = "dailyDates"

\* C15: after a successful geocoding lookup (one that resolved a canonical
\* name) the tool returns a live forecast if and only if some attempt yields
\* a `daily` with an array of dates; if none does (all three fail, or the
\* accepted answer has only `current` or a `daily` without a `time` array)
\* the result is the fallback forecast generated for the resolved canonical
\* name, not for the original destination text.
C15_LiveIffSomeAttemptGaveDates ==
    (wPc \in {"returned", "raised"} /\ wGeo.has /\ wGeo.v.name.has) =>
        /\ wPc = "returned"
        /\ wResult.has
        /\ SomeAttemptGaveDates =>
              /\ wResult.v.summary.kind = "live"
              /\ wResult.v.destination = wGeo.v.name
        /\ ~SomeAttemptGaveDates =>
              /\ IsFallbackFor(wResult.v, wGeo.v.name.v)
              /\ wResult.v.destination = Some(Trim(SplitFirstComma(wGeo.v.name.v)))
              /\ Len(wResult.v.forecast) = RequestedSpan

\* C15 happens: the place resolved to a name other than the text the caller
\* wrote, the first attempt was answered with current conditions only, and
\* the tool returned the fallback for the resolved name.
C15_Witness ==
    /\ wPc = "returned"
    /\ wArg.context.destination = TxtNowhereland
    /\ wGeo = Some([name |-> Some(TxtBali), country |-> None])
    /\ wResponses = <<"currentOnly">>
    /\ wResult.v.summary.kind = "fallback"
    /\ wResult.v.summary.place = Some(TxtBali)

(***************************************************************************)
(* The live mapping (SpecWeather)                                          *)
(***************************************************************************)
\* The upstream array `arr` holds a value for the k-th date.
PresentAt(arr, k) == arr.has /\ k <= Len(arr.v)

\* C16 (as stated): on the live path, for each index of daily.time the
\* DailyForecast carries the upstream value whenever one is present at that
\* index (weatherCode, the condition mapped from it, the temperatures rounded
\* to the nearest integer, the precipitation probability) and uses the
\* defaults code 1, 25/18 and 20 only when the upstream value is missing; a
\* present value of 0 is not missing.
C16_LiveDayCarriesUpstream ==
    (wPc = "returned" /\ wResult.v.summary.kind = "live") =>
        LET arrays == wData.v.daily.v.arrays
        IN  \A k \in 1..Len(wData.v.daily.v.time.v) :
                LET day == wResult.v.forecast[k]
                IN  /\ day.weatherCode =
                          IF PresentAt(arrays.weathercode, k)
                          THEN arrays.weathercode.v[k] ELSE 1
                    /\ day.condition = getWeatherCondition(day.weatherCode)
                    /\ day.maxTemp =
                          IF PresentAt(arrays.temperature_2m_max, k)
                          THEN RoundDiv(arrays.temperature_2m_max.v[k], 10) ELSE 25
                    /\ day.minTemp =
                          IF PresentAt(arrays.temperature_2m_min, k)
                          THEN RoundDiv(arrays.temperature_2m_min.v[k], 10) ELSE 18
                    /\ day.precipitationChance =
                          IF PresentAt(arrays.precipitation_probability_max, k)
                          THEN arrays.precipitation_probability_max.v[k] ELSE 20

(***************************************************************************)
(* What the attractions finder selects (SpecAttractions)                   *)
(***************************************************************************)
\* An entry matches: some interest tag is a case-insensitive substring of
\* its category, type or name, or its estimatedCost is at most 2 x budget.
ClaimedMatch(entry, context) ==
    \/ \E k \in 1..Len(context.interests) :
          LET tag == toLowerCase(context.interests[k])
          IN  \/ includes(toLowerCase(entry.category), tag)
              \/ includes(toLowerCase(entry.type), tag)
              \/ includes(toLowerCase(entry.name), tag)
    \/ ~context.budget.finite
    \/ (context.budget.finite /\ entry.estimatedCost <= 2 * context.budget.v)

\* The i-th smallest position of a set of catalog positions.
NthOf(S, i) == CHOOSE k \in S : Cardinality({j \in S : j <= k}) = i

\* The matching entries in catalog order, followed - only when fewer than
\* the minimum matched - by the first unmatched entries up to the minimum.
ClaimedSelection(context) ==
    LET all == 1..Len(allAttractions)
        hits == {k \in all : ClaimedMatch(allAttractions[k], context)}
        misses == all \ hits
        need == ClaimedMinimum(context.duration)
        pad == IF Cardinality(hits) < need THEN need - Cardinality(hits) ELSE 0
    IN  [i \in 1..(Cardinality(hits) + pad) |->
            IF i <= Cardinality(hits)
            THEN allAttractions[NthOf(hits, i)]
            ELSE allAttractions[NthOf(misses, i - Cardinality(hits))]]

\* C17: the result consists of exactly the matching catalog entries in
\* catalog order, followed, only when fewer than min(2 x duration, 8)
\* matched, by the first unmatched entries in catalog order up to that
\* minimum; it has no duplicate entries, totalAttractions equals its length
\* and categories is exactly the set of categories of the returned entries.
C17_SelectionIsMatchesThenPadding ==
    aPc = "returned" =>
        LET list == aResult.v.attractions
        IN  /\ list = ClaimedSelection(aArg.context)
            /\ \A i \in 1..Len(list) : \A j \in 1..Len(list) :
                  i # j => list[i] # list[j]
            /\ aResult.v.totalAttractions = Len(list)
            /\ {aResult.v.categories[k] : k \in 1..Len(aResult.v.categories)}
                  = {list[k].category : k \in 1..Len(list)}

\* C17 happens: the tag "MUSEUM" matches the two museums by name whatever
\* its case, nothing is within a budget of 0, and for 2 days the list is
\* padded with the first two entries of the catalog that did not match.
C17_Witness ==
    /\ aPc = "returned"
    /\ aArg.context.interests = <<TxtMuseumUpper>>
    /\ aArg.context.budget = [finite |-> TRUE, v |-> 0]
    /\ aArg.context.duration = 2
    /\ aResult.v.attractions = <<allAttractions[4], allAttractions[6],
                                 allAttractions[1], allAttractions[2]>>
    /\ aResult.v.totalAttractions = 4

(***************************************************************************)
(* Properties of the destination research tool (SpecDestination)           *)
(***************************************************************************)
\* The geocoding answer was non-2xx or held no result.
GeocodingFoundNothing ==
    \/ dResponse.v.status = "non2xx"
    \/ /\ dResponse.v.status = "ok"
       /\ dResponse.v.parse = "object"
       /\ (~dResponse.v.results.has \/ dResponse.v.results.v = <<>>)

\* The geocoding call ended in an exception: network error or malformed body.
GeocodingThrew ==
    \/ dResponse.v.status = "throw"
    \/ (dResponse.v.status = "ok" /\ dResponse.v.parse \in {"throw", "null"})

\* The full static profile and the smaller hard-coded one, told apart by
\* their lists.
IsFullProfile(profile) ==
    /\ Len(profile.culturalTips) = 5
    /\ Len(profile.keyAttractions) = 6
    /\ Len(profile.localCuisine) = 5

IsSmallProfile(profile) ==
    /\ profile.culturalTips = <<"Research local customs before visiting">>
    /\ profile.keyAttractions = <<"Main attractions", "Cultural sites">>
    /\ profile.localCuisine = <<"Local specialties">>
    /\ profile.estimatedDailyCosts =
          [accommodation |-> Num(60), food |-> Num(35), transport |-> Num(20),
           activities |-> Num(30), total |-> Num(145)]
    /\ profile.country = TxtUnknown

\* What C18 says of every ended call apart from the destination text of the
\* small profile.
GeocodingFailureHandled ==
    /\ dPc # "raised"
    /\ Len(dRequests) <= 1
    /\ dPc = "returned" =>
          /\ dResult.has
          /\ dRequests = <<[endpoint |-> "geocoding",
                            name |-> dArg.context.destination]>>
          /\ GeocodingFoundNothing =>
                /\ IsFullProfile(dResult.v)
                /\ dResult.v.destination = Some(dArg.context.destination)
                /\ dResult.v.country = TxtUnknown
          /\ GeocodingThrew => IsSmallProfile(dResult.v)

\* C18 (as stated): geocoding failure is non-fatal and the tool never
\* raises; a non-2xx answer or an empty result list yields the full static
\* profile with the raw input as destination and country "Unknown"; any
\* exception yields the smaller profile whose destination is the input
\* truncated at the first comma; at most one geocoding request is issued.
C18_SmallProfileTruncatesAtComma ==
    /\ GeocodingFailureHandled
    /\ (dPc = "returned" /\ GeocodingThrew) =>
          dResult.v.destination = Some(SplitFirstComma(dArg.context.destination))

\* C18 (amended): as stated, except that the destination of the smaller
\* profile is the input truncated at the first comma and then trimmed of
\* surrounding whitespace.
C18_SmallProfileTruncatesAndTrims ==
    /\ GeocodingFailureHandled
    /\ (dPc = "returned" /\ GeocodingThrew) =>
          dResult.v.destination =
              Some(ExpectedDestination(dArg.context.destination))

\* C18 happens: the geocoding fetch rejected for " Bali ,ID" and the small
\* profile came back for "Bali".
C18_Witness ==
    /\ dPc = "returned"
    /\ dArg.context.destination = TxtSpacedBali
    /\ dResponse = Some([status |-> "throw"])
    /\ Len(dRequests) = 1
    /\ dResult.v.destination = Some(TxtBali)
    /\ dResult.v.culturalTips = <<"Research local customs before visiting">>

\* The spec's multiplier for a style, in tenths: 1 for budget, 1.8 for
\* mid-range, 3.5 for luxury and 1.8 for any unrecognized style.
ClaimedMultiplierTenths(travelStyle) ==
    IF travelStyle = "budget" THEN 10
    ELSE IF travelStyle = "luxury" THEN 35
    ELSE 18

\* round(base x multiplier)
ClaimedCost(base, travelStyle) ==
    Num(RoundDiv(base * ClaimedMultiplierTenths(travelStyle), 10))

\* C19 (as stated): on its non-exception path the tool returns
\* estimatedDailyCosts with accommodation = round(50 x m), food =
\* round(30 x m), transport = round(15 x m), activities = round(25 x m) and
\* total = round(120 x m), m being 1, 1.8 or 3.5 by style and 1.8 for any
\* unrecognized style, whatever the destination and the travelers;
\* safetyLevel is always "medium".
C19_CostsScaleWithStyle ==
    dPc = "returned" =>
        /\ dResult.v.safetyLevel = "medium"
        /\ ~GeocodingThrew =>
              dResult.v.estimatedDailyCosts =
                  [accommodation |-> ClaimedCost(50, dArg.context.travelStyle),
                   food |-> ClaimedCost(30, dArg.context.travelStyle),
                   transport |-> ClaimedCost(15, dArg.context.travelStyle),
                   activities |-> ClaimedCost(25, dArg.context.travelStyle),
                   total |-> ClaimedCost(120, dArg.context.travelStyle)]

(***************************************************************************)
(* The join of the four research tools (SpecFlow)                          *)
(***************************************************************************)
\* The run has reached itinerary synthesis: the itinerary step is due or has
\* run, the text-generation call has been made or its stream opened.
SynthesisReached ==
    \/ fPc \in {"itinerary", "streaming", "stepFailed", "stepDone"}
    \/ fStream # "none"
    \/ fStepOut.has

AllToolsFulfilled ==
    /\ fPromises.has
    /\ \A t \in ToolNames : fPromises.v[t].state = "fulfilled"

SomeToolFailed ==
    /\ fPromises.has
    /\ \E t \in ToolNames : fPromises.v[t].state = "rejected"

RECURSIVE Concatenation(_)
Concatenation(fragments) ==
    IF fragments = <<>> THEN <<>>
    ELSE Head(fragments) \o Concatenation(Tail(fragments))

\* The highlights the spec describes: the names of the first 3 attractions
\* of the bundle (fewer if it has fewer), then the sunny days, then the
\* cultural insights.
ClaimedHighlights(bundle) ==
    LET list == bundle.attractions.attractions
        forecast == bundle.weatherForecast.forecast
        shown == IF Len(list) < 3 THEN Len(list) ELSE 3
    IN  [k \in 1..(shown + 2) |->
            IF k <= shown THEN [kind |-> "name", text |-> list[k].name]
            ELSE IF k = shown + 1
            THEN [kind |-> "sunny days",
                  n |-> Cardinality({d \in 1..Len(forecast) :
                                        forecast[d].precipitationChance < 30})]
            ELSE [kind |-> "cultural insights included",
                  n |-> Len(bundle.destinationInfo.culturalTips)]]

\* C21: the itinerary step's output has itinerary equal to the
\* concatenation, in arrival order, of all fragments of the stream;
\* summary.highlights are the names of the first 3 attractions of the bundle
\* (fewer if it has fewer), then "<n> sunny days" (forecast days with
\* precipitationChance < 30), then "<n> cultural insights included" (number
\* of culturalTips); summary.duration is recomputed from the request dates
\* and equals the duration the aggregator uses for the same request.
C21_ItineraryOutput ==
    (fStepOut.has /\ fStepOut.v.kind = "ok") =>
        LET out == fStepOut.v.value
        IN  /\ fStream = "ended"
            /\ out.itinerary = Concatenation(fFragments)
            /\ out.summary.highlights = ClaimedHighlights(fBundle.v)
            /\ out.summary.duration = fRequest.endDate - fRequest.startDate
            /\ out.summary.duration =
                  ToolCalls(fRequest)["budget"].inputData.duration
            /\ out.summary.totalBudget = fRequest.budget
            /\ out.summary.travelers = fRequest.travelers

\* C21 happens: the stream delivered "Day " and then "1" and ended, and the
\* step returned for a bundle with more than 3 attractions, a day that is
\* not sunny and a sunny one.
C21_Witness ==
    /\ fStepOut.has
    /\ fStepOut.v.kind = "ok"
    /\ fFragments = <<<<"D","a","y"," ">>, <<"1">>>>
    /\ fStepOut.v.value.itinerary = <<"D","a","y"," ","1">>
    /\ Len(fBundle.v.attractions.attractions) > 3
    /\ Len(fStepOut.v.value.summary.highlights) = 5
    /\ \E d \in 1..Len(fBundle.v.weatherForecast.forecast) :
          fBundle.v.weatherForecast.forecast[d].precipitationChance >= 30
    /\ fStepOut.v.value.summary.highlights[4].n >= 1

(***************************************************************************)
(* Ranges of the fallback forecast (SpecWeather)                           *)
(***************************************************************************)
\* The tool returned a forecast built by the fallback generator.
ReturnedFallback ==
    /\ wPc = "returned"
    /\ wResult.v.summary.kind = "fallback"

\* C22: every entry of a fallback forecast has maxTemp in 25..35, minTemp in
\* 18..25 and precipitationChance in 0..40 for every outcome of the random
\* source, so minTemp <= maxTemp and no fallback day has a
\* precipitationChance above 50.
C22_FallbackRanges ==
    ReturnedFallback =>
        \A k \in 1..Len(wResult.v.forecast) :
            LET day == wResult.v.forecast[k]
            IN  /\ day.maxTemp \in 25..35
                /\ day.minTemp \in 18..25
                /\ day.precipitationChance \in 0..40
                /\ day.minTemp <= day.maxTemp
                /\ ~(day.precipitationChance > 50)

\* C22 happens: a fallback forecast holds a day with the lowest maximum and
\* the highest minimum the random source can give, and a day with the
\* highest precipitation chance.
C22_Witness ==
    /\ ReturnedFallback
    /\ \E k \in 1..Len(wResult.v.forecast) :
          /\ wResult.v.forecast[k].maxTemp = 25
          /\ wResult.v.forecast[k].minTemp = 24
    /\ \E k \in 1..Len(wResult.v.forecast) :
          wResult.v.forecast[k].precipitationChance = 39

(***************************************************************************)
(* Drift of the category totals (SpecBudget)                               *)
(***************************************************************************)
\* The sum of the five category totals of a breakdown.
SumOfTotals(result) ==
    LET entries == BreakdownEntries(result)
    IN  entries[1].total + entries[2].total + entries[3].total
          + entries[4].total + entries[5].total

ClaimedFallbackCode(i) == IF i % 3 = 0 THEN 2 ELSE IF i % 3 = 1 THEN 1 ELSE 0
ClaimedFallbackCondition(i) ==
    IF i % 3 = 0 THEN "Partly cloudy"
    ELSE IF i % 3 = 1 THEN "Mainly clear" ELSE "Clear sky"

\* C24: in every result the weather tool returns, live or fallback, each
\* entry's condition is the weather condition mapper applied to that entry's
\* weatherCode; the entries of a fallback forecast cycle the codes 2, 1, 0
\* with the conditions "Partly cloudy", "Mainly clear", "Clear sky" by
\* i mod 3.
C24_ConditionMatchesCode ==
    wPc = "returned" =>
        \A k \in 1..Len(wResult.v.forecast) :
            LET day == wResult.v.forecast[k]
            IN  /\ day.condition = getWeatherCondition(day.weatherCode)
                /\ ReturnedFallback =>
                      /\ day.weatherCode = ClaimedFallbackCode(k - 1)
                      /\ day.condition = ClaimedFallbackCondition(k - 1)

\* C24 happens: a live forecast holds a rainy day, code 61 with the
\* condition "Slight rain".
C24_Witness ==
    /\ wPc = "returned"
    /\ ~ReturnedFallback
    /\ \E k \in 1..Len(wResult.v.forecast) :
          /\ wResult.v.forecast[k].weatherCode = 61
          /\ wResult.v.forecast[k].condition = "Slight rain"

(***************************************************************************)
(* Arguments the research aggregator hands to its tools (SpecFlow)         *)
(***************************************************************************)
\* The budget calculator is given a positive duration and the attractions
\* finder a finite budget, round(budget / duration * 0.2).
AggregatorArgumentsSound ==
    LET duration == fCalls.v["budget"].inputData.duration
        budget == fCalls.v["attractions"].inputData.budget
    IN  /\ duration > 0
        /\ fCalls.v["attractions"].inputData.duration = duration
        /\ budget.finite
        /\ IsRounded(budget.v, fRequest.budget, 500 * duration)

\* C25 (as stated): for every TripRequest with endDate >= startDate and
\* budget > 0 the research aggregator invokes the budget calculator with
\* duration > 0 and the attractions finder with the finite budget
\* round(totalBudget / duration * 0.2), so no division by a zero duration
\* occurs.
C25_NoDivisionByZeroDuration ==
    (/\ fCalls.has
     /\ fRequest.endDate >= fRequest.startDate
     /\ fRequest.budget > 0)
        => AggregatorArgumentsSound

\* What does hold: the arguments are sound when endDate is after startDate.
LaterEndGivesSoundArguments ==
    (/\ fCalls.has
     /\ fRequest.endDate > fRequest.startDate
     /\ fRequest.budget > 0)
        => AggregatorArgumentsSound

\* A same-day trip was dispatched with duration 0 and an infinite budget.
SameDayTripDispatched ==
    /\ fCalls.has
    /\ fRequest.endDate = fRequest.startDate
    /\ fCalls.v["budget"].inputData.duration = 0
    /\ ~fCalls.v["attractions"].inputData.budget.finite

(***************************************************************************)
(* The total of the estimated daily costs (SpecDestination)                *)
(***************************************************************************)
\* a + b and a === b of two numbers either of which may be NaN.
NumAdd(a, b) == IF a.nan \/ b.nan THEN NaN ELSE Num(a.v + b.v)
NumEquals(a, b) == ~a.nan /\ ~b.nan /\ a.v = b.v

\* total is the sum of the four category costs.
TotalIsSumOfCosts(costs) ==
    NumEquals(costs.total,
              NumAdd(NumAdd(costs.accommodation, costs.food),
                     NumAdd(costs.transport, costs.activities)))

\* C26 (as stated): in every profile the destination research tool returns,
\* for each travel style on the normal path and for the fallback profile of
\* the catch block, estimatedDailyCosts.total equals the sum of the
\* accommodation, food, transport and activities costs.
C26_TotalIsSumOfCosts ==
    dPc = "returned" => TotalIsSumOfCosts(dResult.v.estimatedDailyCosts)

\* What does hold: the total is the sum in the fallback profile and on the
\* normal path for the styles budget and mid-range and for an unrecognized
\* style that is not an inherited property name.
TotalIsSumOutsideLuxury ==
    (/\ dPc = "returned"
     /\ \/ GeocodingThrew
        \/ dArg.context.travelStyle \in {"budget", "mid-range", "backpacker"})
        => TotalIsSumOfCosts(dResult.v.estimatedDailyCosts)

\* A luxury profile of the normal path: 175 + 105 + 53 + 88 = 421 next to a
\* total of 420.
LuxuryTotalBelowSum ==
    /\ dPc = "returned"
    /\ ~GeocodingThrew
    /\ dArg.context.travelStyle = "luxury"
    /\ dResult.v.estimatedDailyCosts =
          [accommodation |-> Num(175), food |-> Num(105), transport |-> Num(53),
           activities |-> Num(88), total |-> Num(420)]

====
